---- MODULE Spec2Model ----
(***************************************************************************)
(* A model of the course-generation pipeline of course-agent:              *)
(*   - agents/coordinator.py   the workflow executor                       *)
(*   - agents/*.py             the four generation steps                   *)
(*   - utils/json_cleaner.py   the JSON repair of the structure text       *)
(*   - models/course.py        the course document and its module resize   *)
(* Python dictionaries are functions from string keys to values; Python    *)
(* strings that the code parses are sequences of one-character strings.    *)
(***************************************************************************)
EXTENDS Integers, Sequences, FiniteSets, TLC

(***************************************************************************)
(* Bounds of the model.                                                    *)
(***************************************************************************)
\* Longest workflow list handed to set_workflow.
MaxWorkflow == 3
\* Opaque field sets 0..MaxField exchanged with the abstract steps.
MaxField == 1
\* Largest week count N of a course_duration "<N> weeks".
MaxWeeks == 10
\* Most modules added to a course before its modules are resized.
MaxModules == 3
\* Most references added to a course.
MaxReferences == 1
\* Most task records (generation and refinement) an application creates.
MaxTasks == 2
\* The longest text of the short inputs of clean_json_string.
MaxText == 4

VARIABLES
    agents,         \* CoordinatorAgent.agents: registered name -> kind of step
    workflow,       \* CoordinatorAgent.workflow: sequence of names
    cpc,            \* position of CoordinatorAgent.process
    idx,            \* index of the loop of process in workflow
    inputs,         \* the argument of process
    current_input,  \* local of process
    results,        \* local of process
    output,         \* what process returned
    error,          \* the exception process raised
    active,         \* kind of the step whose process is running
    apc,            \* position of the running step's process
    arg,            \* the argument of the running step's process
    aret,           \* what the step's process returned
    aerr,           \* the exception the step's process raised
    loc,            \* the locals of the running step's process
    inflight,       \* the model and gateway calls issued and not yet answered
    invoked,        \* history: the step invocations of the run, in order
    returned,       \* history: the outputs of the returned invocations, in order
    events,         \* history: begin and end of steps, issue and answer of calls
    course,         \* a Course: its modules and its course_duration
    before,         \* history: course.modules when the last operation began
    cop,            \* history: the last operation on course
    roundtrip,      \* the dict to_dict made of course, and the Course rebuilt from it
    app,            \* the web application that runs: api/main.py or api/routes
    course_tasks,   \* course_tasks: task id -> task record
    files,          \* the output directory: task id -> persisted document
    coros,          \* the coroutines handed to an event loop, in order
    next_id,        \* the identifiers uuid4 has handed out so far
    run,            \* the generation task the handler is running (api/routes)
    gather,         \* ResearchService: the call of gather_research in progress
    clean,          \* json_cleaner: the call of clean_json_string in progress
    storage,        \* app.py: the storage directory, task id -> course record
    threads,        \* app.py: the threads of generate_course_async, by task id
    response        \* app.py: the answer to the last request

vars == << agents, workflow, cpc, idx, inputs, current_input, results, output,
           error, active, apc, arg, aret, aerr, loc, inflight, invoked,
           returned, events, course, before, cop, roundtrip, app, course_tasks,
           files, coros, next_id, run, gather, clean, storage, threads,
           response >>

serviceVars == << app, course_tasks, files, coros, next_id, run >>
researchVars == << gather >>
cleanVars == << clean >>
uiVars == << storage, threads, response >>

courseVars == << course, before, cop, roundtrip >>

coordVars == << agents, workflow, cpc, idx, inputs, current_input, results,
                output, error >>
callVars == << active, apc, arg, aret, aerr, loc, inflight >>
histVars == << invoked, returned, events >>

\* Python's None, and a local that is not bound.
None == "None"

\* No call of clean_json_string is in progress.
CleanIdle == clean = [pc |-> "idle"]

\* app.py does not run: nothing is stored, no thread runs, nothing was asked.
UiAbsent ==
    /\ storage = << >>
    /\ threads = << >>
    /\ response = None

(***************************************************************************)
(* Python dict helpers.                                                    *)
(***************************************************************************)
\* d[k] = v
DictSet(d, k, v) == [n \in DOMAIN d \cup {k} |-> IF n = k THEN v ELSE d[n]]

\* d.get(k, default)
DictGet(d, k, default) == IF k \in DOMAIN d THEN d[k] ELSE default

Range(s) == {s[i] : i \in DOMAIN s}

Min(S) == CHOOSE x \in S : \A y \in S : x <= y
Max(S) == CHOOSE x \in S : \A y \in S : x >= y

(***************************************************************************)
(* Python strings as sequences of one-character strings.                   *)
(***************************************************************************)
Whitespace == {" ", "\n", "\t", "\r"}

Digits == {"0", "1", "2", "3", "4", "5", "6", "7", "8", "9"}

DigitValue(c) ==
    CASE c = "0" -> 0 [] c = "1" -> 1 [] c = "2" -> 2 [] c = "3" -> 3
      [] c = "4" -> 4 [] c = "5" -> 5 [] c = "6" -> 6 [] c = "7" -> 7
      [] c = "8" -> 8 [] c = "9" -> 9

\* Whether pat occurs in s at index i.
MatchAt(s, i, pat) ==
    /\ i >= 1
    /\ i + Len(pat) - 1 <= Len(s)
    /\ SubSeq(s, i, i + Len(pat) - 1) = pat

\* str.strip()
RECURSIVE LStrip(_)
LStrip(s) == IF s # << >> /\ s[1] \in Whitespace THEN LStrip(Tail(s)) ELSE s

RECURSIVE RStrip(_)
RStrip(s) ==
    IF s # << >> /\ s[Len(s)] \in Whitespace
    THEN RStrip(SubSeq(s, 1, Len(s) - 1))
    ELSE s

Strip(s) == RStrip(LStrip(s))

(***************************************************************************)
(* json.loads, for the JSON of objects, arrays, strings (with the escapes  *)
(* \" \\ \/ \n \t \r), integers and the literals true, false, null.  A     *)
(* parsed value carries its Python type: dict, list, str, int, bool, None. *)
(***************************************************************************)
JDict(d) == [t |-> "dict", v |-> d]
JList(l) == [t |-> "list", v |-> l]
JStr(s) == [t |-> "str", v |-> s]
JInt(n) == [t |-> "int", v |-> n]
JBool(b) == [t |-> "bool", v |-> b]
JNone == [t |-> "None", v |-> None]

\* sys.int_info.default_max_str_digits of the interpreter (CPython 3.11): the
\* longest run of digits that int conversion, and with it json.loads, accepts.
MaxStrDigits == 4300

\* A scan that failed with json.JSONDecodeError, one that failed with the
\* ValueError of the integer conversion, and one that produced val and stopped
\* before pos.
NoParse == [ok |-> FALSE, val |-> None, pos |-> 0, exc |-> "JSONDecodeError"]
Overflow == [ok |-> FALSE, val |-> None, pos |-> 0, exc |-> "ValueError"]
Parsed(val, pos) == [ok |-> TRUE, val |-> val, pos |-> pos, exc |-> "none"]

RECURSIVE SkipWhitespace(_, _)
SkipWhitespace(s, i) ==
    IF i <= Len(s) /\ s[i] \in Whitespace THEN SkipWhitespace(s, i + 1) ELSE i

Unescape(c) ==
    CASE c = "n" -> "\n" [] c = "t" -> "\t" [] c = "r" -> "\r" [] OTHER -> c

\* The string whose opening quote stands before index i; acc is what was read.
RECURSIVE ScanString(_, _, _)
ScanString(s, i, acc) ==
    IF i > Len(s) THEN NoParse
    ELSE IF s[i] = "\"" THEN Parsed(acc, i + 1)
    ELSE IF s[i] = "\\" THEN
        IF i + 1 <= Len(s) /\ s[i + 1] \in {"\"", "\\", "/", "n", "t", "r"}
        THEN ScanString(s, i + 2, acc \o Unescape(s[i + 1]))
        ELSE NoParse
    ELSE IF s[i] \in {"\n", "\t", "\r"} THEN NoParse
    ELSE ScanString(s, i + 1, acc \o s[i])

\* The digits from index i on; acc is their value so far.
RECURSIVE ScanDigits(_, _, _)
ScanDigits(s, i, acc) ==
    IF i <= Len(s) /\ s[i] \in Digits
    THEN ScanDigits(s, i + 1, 10 * acc + DigitValue(s[i]))
    ELSE Parsed(acc, i)

\* The index after the run of digits that starts at index i.
DigitsEnd(s, i) == Min({j \in i..(Len(s) + 1) : j > Len(s) \/ s[j] \notin Digits})

\* -?(0|[1-9][0-9]*), converted by int: a run of more than MaxStrDigits digits
\* raises ValueError.
ScanNumber(s, i) ==
    LET neg == i <= Len(s) /\ s[i] = "-"
        j == IF neg THEN i + 1 ELSE i
    IN  IF j > Len(s) \/ s[j] \notin Digits THEN NoParse
        ELSE IF s[j] # "0" /\ DigitsEnd(s, j) - j > MaxStrDigits THEN Overflow
        ELSE LET r == IF s[j] = "0" THEN Parsed(0, j + 1) ELSE ScanDigits(s, j, 0)
             IN  Parsed(JInt(IF neg THEN 0 - r.val ELSE r.val), r.pos)

RECURSIVE ScanValue(_, _)
RECURSIVE ScanElements(_, _, _)
RECURSIVE ScanMembers(_, _, _)

\* The elements of an array from index i on, after "[" or ",".
ScanElements(s, i, acc) ==
    LET r == ScanValue(s, i)
        j == SkipWhitespace(s, r.pos)
    IN  IF ~r.ok THEN r
        ELSE IF j > Len(s) THEN NoParse
        ELSE IF s[j] = "]" THEN Parsed(JList(Append(acc, r.val)), j + 1)
        ELSE IF s[j] = "," THEN
            ScanElements(s, SkipWhitespace(s, j + 1), Append(acc, r.val))
        ELSE NoParse

\* The members of an object from index i on, after "{" or ",".
ScanMembers(s, i, acc) ==
    IF i > Len(s) \/ s[i] # "\"" THEN NoParse
    ELSE
    LET k == ScanString(s, i + 1, "")
        c == SkipWhitespace(s, k.pos)
    IN  IF ~k.ok \/ c > Len(s) \/ s[c] # ":" THEN NoParse
        ELSE
        LET r == ScanValue(s, SkipWhitespace(s, c + 1))
            j == SkipWhitespace(s, r.pos)
        IN  IF ~r.ok THEN r
            ELSE IF j > Len(s) THEN NoParse
            ELSE IF s[j] = "}" THEN
                Parsed(JDict(DictSet(acc, k.val, r.val)), j + 1)
            ELSE IF s[j] = "," THEN
                ScanMembers(s, SkipWhitespace(s, j + 1), DictSet(acc, k.val, r.val))
            ELSE NoParse

ScanValue(s, i) ==
    IF i > Len(s) THEN NoParse
    ELSE IF s[i] = "\"" THEN
        LET r == ScanString(s, i + 1, "")
        IN  IF r.ok THEN Parsed(JStr(r.val), r.pos) ELSE NoParse
    ELSE IF s[i] = "{" THEN
        LET j == SkipWhitespace(s, i + 1)
        IN  IF j <= Len(s) /\ s[j] = "}" THEN Parsed(JDict(<< >>), j + 1)
            ELSE ScanMembers(s, j, << >>)
    ELSE IF s[i] = "[" THEN
        LET j == SkipWhitespace(s, i + 1)
        IN  IF j <= Len(s) /\ s[j] = "]" THEN Parsed(JList(<< >>), j + 1)
            ELSE ScanElements(s, j, << >>)
    ELSE IF MatchAt(s, i, <<"n", "u", "l", "l">>) THEN Parsed(JNone, i + 4)
    ELSE IF MatchAt(s, i, <<"t", "r", "u", "e">>) THEN Parsed(JBool(TRUE), i + 4)
    ELSE IF MatchAt(s, i, <<"f", "a", "l", "s", "e">>) THEN Parsed(JBool(FALSE), i + 5)
    ELSE ScanNumber(s, i)

\* What a call that raised exception exc returns in the model.
Raised(exc) == [ok |-> FALSE, val |-> None, exc |-> exc]

\* json.loads(s): [ok |-> TRUE, val |-> v], or ok = FALSE and the exception
\* raised: JSONDecodeError, or the ValueError of the integer conversion.
JsonLoads(s) ==
    LET r == ScanValue(s, SkipWhitespace(s, 1))
    IN  IF r.ok /\ SkipWhitespace(s, r.pos) > Len(s)
        THEN [ok |-> TRUE, val |-> r.val, exc |-> "none"]
        ELSE IF r.ok THEN Raised("JSONDecodeError")
        ELSE Raised(r.exc)

(***************************************************************************)
(* utils/json_cleaner.py                                                   *)
(***************************************************************************)
\* The backquote character, which a TLA+ string cannot hold.
Backquote == "BACKQUOTE"

Fence == << Backquote, Backquote, Backquote >>
FenceJson == << Backquote, Backquote, Backquote, "j", "s", "o", "n" >>

\* s without the characters at the indices of drop.
DropIndices(s, drop) ==
    LET keep == (1..Len(s)) \ drop
        rank == [i \in keep |-> Cardinality({k \in keep : k <= i})]
    IN  IF drop = {} THEN s
        ELSE [j \in 1..Cardinality(keep) |-> s[CHOOSE i \in keep : rank[i] = j]]

\* The indices covered by occurrences of pat that start at the indices of at.
Covered(at, pat) == UNION {i..(i + Len(pat) - 1) : i \in at}

\* re.sub('^' + pat, '', s, flags=re.MULTILINE): pat holds no newline, so
\* its occurrences at the starts of lines do not overlap.
RemoveAtLineStart(s, pat) ==
    DropIndices(s, Covered({i \in 1..Len(s) :
                               /\ i = 1 \/ s[i - 1] = "\n"
                               /\ MatchAt(s, i, pat)}, pat))

\* re.sub(pat + '$', '', s, flags=re.MULTILINE): likewise at the ends of lines.
RemoveAtLineEnd(s, pat) ==
    DropIndices(s, Covered({i \in 1..Len(s) :
                               /\ MatchAt(s, i, pat)
                               /\ i + Len(pat) > Len(s) \/ s[i + Len(pat)] = "\n"}, pat))

\* clean_json_string, lines 9-14: the fence markers and the whitespace.
StripFences(json_str) ==
    Strip(RemoveAtLineEnd(
              RemoveAtLineStart(RemoveAtLineStart(json_str, FenceJson), Fence),
              Fence))

\* clean_json_string, lines 25-29: whether index i is inside a double-quoted
\* span, every quote not preceded by a backslash toggling it.
InString(s, i) ==
    Cardinality({k \in 1..i : s[k] = "\"" /\ (k = 1 \/ s[k - 1] # "\\")}) % 2 = 1

\* clean_json_string, lines 25-34: single quotes outside double-quoted spans.
FixQuotes(s) ==
    [i \in 1..Len(s) |-> IF s[i] = "'" /\ ~InString(s, i) THEN "\"" ELSE s[i]]

\* The indices of c in s.
IndicesOf(s, c) == {i \in 1..Len(s) : s[i] = c}

\* re.search(r'({[\s\S]*})', s): from the first "{" to the last "}" after it.
BraceSpan(s) ==
    LET opens == IndicesOf(s, "{")
        closes == IndicesOf(s, "}")
    IN  IF opens # {} /\ closes # {} /\ Min(opens) < Max(closes)
        THEN [found |-> TRUE, text |-> SubSeq(s, Min(opens), Max(closes))]
        ELSE [found |-> FALSE, text |-> << >>]

\* clean_json_string(json_str): the parsed value, or ok = FALSE and the
\* exception that leaves the function: the JSONDecodeError of line 50, or an
\* exception of json.loads that the except clauses of lines 19, 37 and 46 do
\* not name.
clean_json_string(json_str) ==
    LET cleaned == StripFences(json_str)
        direct == JsonLoads(cleaned)
        fixed == JsonLoads(FixQuotes(cleaned))
        span == BraceSpan(cleaned)
        inner == JsonLoads(span.text)
    IN  IF direct.ok \/ direct.exc # "JSONDecodeError" THEN direct
        ELSE IF fixed.ok \/ fixed.exc # "JSONDecodeError" THEN fixed
        ELSE IF span.found /\ (inner.ok \/ inner.exc # "JSONDecodeError") THEN inner
        ELSE Raised("JSONDecodeError")

(***************************************************************************)
(* The abstract step: any BaseAgent.process.  It returns some field set or *)
(* raises.                                                                 *)
(***************************************************************************)
StepNames == {"s1", "s2", "initial_input"}

FieldSets == 0..MaxField

Workflows == UNION {[1..n -> StepNames] : n \in 0..MaxWorkflow}

\* The running step's process returns out; evs are the events up to there.
Return(out, evs) ==
    /\ apc' = "returned"
    /\ aret' = out
    /\ returned' = Append(returned, out)
    /\ events' = Append(evs, [ev |-> "end", who |-> workflow[idx]])
    /\ UNCHANGED << cleanVars, uiVars, courseVars, researchVars, serviceVars, coordVars, active, arg, aerr, invoked >>

\* The running step's process raises e; evs are the events up to there.
Raise(e, evs) ==
    /\ apc' = "raised"
    /\ aerr' = e
    /\ events' = Append(evs, [ev |-> "end", who |-> workflow[idx]])
    /\ UNCHANGED << cleanVars, uiVars, courseVars, researchVars, serviceVars, coordVars, active, arg, aret, invoked, returned >>

StubReturn(out) ==
    /\ apc = "stub"
    /\ Return(out, events)
    /\ UNCHANGED << loc, inflight >>

StubRaise ==
    /\ apc = "stub"
    /\ Raise("StepError", events)
    /\ UNCHANGED << loc, inflight >>

(***************************************************************************)
(* The week count of a duration string: int(course_duration.split()[0]).   *)
(***************************************************************************)
\* s.split()[0]: the first whitespace-delimited token; ok = FALSE for the
\* IndexError of a blank string.
RECURSIVE TokenPrefix(_)
TokenPrefix(s) ==
    IF s = << >> \/ s[1] \in Whitespace THEN << >>
    ELSE << s[1] >> \o TokenPrefix(Tail(s))

FirstToken(s) ==
    IF LStrip(s) = << >> THEN [ok |-> FALSE, tok |-> << >>]
    ELSE [ok |-> TRUE, tok |-> TokenPrefix(LStrip(s))]

\* The digit groups int() accepts: digits, single underscores between them.
DigitGroup(b) ==
    /\ b # << >>
    /\ b[1] \in Digits
    /\ b[Len(b)] \in Digits
    /\ \A i \in 1..Len(b) : b[i] \in Digits \cup {"_"}
    /\ \A i \in 1..(Len(b) - 1) : ~(b[i] = "_" /\ b[i + 1] = "_")

RECURSIVE DigitGroupValue(_, _)
DigitGroupValue(b, acc) ==
    IF b = << >> THEN acc
    ELSE IF b[1] = "_" THEN DigitGroupValue(Tail(b), acc)
    ELSE DigitGroupValue(Tail(b), 10 * acc + DigitValue(b[1]))

\* int(tok) of a token without whitespace; ok = FALSE for the ValueError.
PyInt(tok) ==
    LET signed == tok # << >> /\ tok[1] \in {"+", "-"}
        body == IF signed THEN Tail(tok) ELSE tok
    IN  IF DigitGroup(body)
        THEN [ok |-> TRUE,
              val |-> IF signed /\ tok[1] = "-"
                      THEN 0 - DigitGroupValue(body, 0)
                      ELSE DigitGroupValue(body, 0)]
        ELSE [ok |-> FALSE, val |-> 0]

\* int(s.split()[0]); ok = FALSE when it raises ValueError or IndexError.
LeadingInt(s) ==
    IF FirstToken(s).ok THEN PyInt(FirstToken(s).tok) ELSE [ok |-> FALSE, val |-> 0]

(***************************************************************************)
(* The field sets handed to the pipeline, and what the services answer.    *)
(***************************************************************************)
Str2Weeks ==
    << "2", " ", "w", "e", "e", "k", "s" >>
StrWeeks ==
    << "w", "e", "e", "k", "s" >>
Str6Weeks ==
    << "6", " ", "w", "e", "e", "k", "s" >>

\* The request of a generation task, as routes/courses.py builds it; the last
\* one carries a stale "error" entry of its own.
PipelineInputs ==
    { [topic |-> "T", depth |-> "beginner", target_audience |-> "G",
       course_duration |-> Str2Weeks],
      [topic |-> "T", target_audience |-> "G"],
      [topic |-> "T", depth |-> "advanced", course_duration |-> StrWeeks,
       error |-> "stale"] }

\* What gather_research returns: the two source lists.  The second holds the
\* placeholders of a provider without key and of a failed provider (no "url");
\* the third a web result whose "content" is null.
GatherResults ==
    { [topic |-> "T", depth |-> "beginner",
       web_sources |-> << [title |-> "W1", content |-> "w1", url |-> "uw1"] >>,
       academic_sources |-> << [title |-> "A1", content |-> "a1", url |-> "ua1"] >>],
      [topic |-> "T", depth |-> "beginner",
       web_sources |-> << [title |-> "Tavily API key not configured",
                           content |-> "Please set TAVILY_API_KEY"] >>,
       academic_sources |-> << [title |-> "Error",
                                content |-> "Failed to search arXiv"] >>],
      [topic |-> "T", depth |-> "beginner",
       web_sources |-> << [title |-> "W1", content |-> None, url |-> "uw1"] >>,
       academic_sources |-> << >>] }

\* The text of the model's research synthesis.
ResearchTexts == {"R"}

\* A call issued by the running step: to the model, or to the gateway.
Req(call, m, l) == [agent |-> active, call |-> call, m |-> m, l |-> l]

Issued(evs, req) == Append(evs, [ev |-> "issue", who |-> req])
Answered(evs, req) == Append(evs, [ev |-> "answer", who |-> req])

(***************************************************************************)
(* agents/researcher.py                                                    *)
(***************************************************************************)
\* f"SOURCE {i+1}: {title}\n{content[:500]}..." of the first n sources; the
\* contents of the model are shorter than 500 characters.
Summaries(sources, n) ==
    [i \in 1..(IF Len(sources) < n THEN Len(sources) ELSE n) |->
        [n |-> i, title |-> DictGet(sources[i], "title", ""),
         snippet |-> DictGet(sources[i], "content", "")]]

\* Slicing the content of one of the first n sources raises TypeError.
SliceFails(sources, n) ==
    \E i \in 1..Len(sources) : i <= n /\ DictGet(sources[i], "content", "") = None

\* [{"title": ..., "url": ...} for s in sources]
TitleAndUrl(sources) ==
    [i \in 1..Len(sources) |->
        [title |-> DictGet(sources[i], "title", ""),
         url |-> DictGet(sources[i], "url", "")]]

\* process, lines 22-29: up to the await of gather_research.
ResearchStart ==
    /\ apc = "research_start"
    /\ apc' = "research_gather"
    /\ loc' = [topic |-> DictGet(arg, "topic", ""),
               depth |-> DictGet(arg, "depth", "intermediate")]
    /\ inflight' = inflight \cup {Req("gather", 0, 0)}
    /\ events' = Issued(events, Req("gather", 0, 0))
    /\ UNCHANGED << cleanVars, uiVars, courseVars, researchVars, serviceVars, coordVars, active, arg, aret, aerr, invoked, returned >>

\* process, lines 29-50 and 52-77: gather_research returned data; a slice that
\* fails takes the except arm with both source lists bound.
ResearchGathered(data) ==
    /\ apc = "research_gather"
    /\ LET web == DictGet(data, "web_sources", << >>)
           academic == DictGet(data, "academic_sources", << >>)
           failed == SliceFails(web, 3) \/ SliceFails(academic, 2)
       IN  loc' = [topic |-> loc.topic, depth |-> loc.depth,
                   gather_raised |-> FALSE,
                   sources_bound |-> TRUE,
                   web_sources |-> web,
                   academic_sources |-> academic,
                   placeholders |-> failed,
                   web_summaries |->
                       IF failed THEN "Error retrieving web sources."
                       ELSE Summaries(web, 3),
                   academic_summaries |->
                       IF failed THEN "Error retrieving academic sources."
                       ELSE Summaries(academic, 2)]
    /\ apc' = "research_llm"
    /\ inflight' = (inflight \ {Req("gather", 0, 0)}) \cup {Req("research", 0, 0)}
    /\ events' = Issued(Answered(events, Req("gather", 0, 0)), Req("research", 0, 0))
    /\ UNCHANGED << cleanVars, uiVars, courseVars, researchVars, serviceVars, coordVars, active, arg, aret, aerr, invoked, returned >>

\* process, lines 47-50 and 52-77: gather_research raised; web_sources and
\* academic_sources were never assigned.
ResearchGatherRaised ==
    /\ apc = "research_gather"
    /\ loc' = [topic |-> loc.topic, depth |-> loc.depth,
               gather_raised |-> TRUE,
               sources_bound |-> FALSE,
               web_sources |-> << >>,
               academic_sources |-> << >>,
               placeholders |-> TRUE,
               web_summaries |-> "Error retrieving web sources.",
               academic_summaries |-> "Error retrieving academic sources."]
    /\ apc' = "research_llm"
    /\ inflight' = (inflight \ {Req("gather", 0, 0)}) \cup {Req("research", 0, 0)}
    /\ events' = Issued(Answered(events, Req("gather", 0, 0)), Req("research", 0, 0))
    /\ UNCHANGED << cleanVars, uiVars, courseVars, researchVars, serviceVars, coordVars, active, arg, aret, aerr, invoked, returned >>

\* process, lines 82-89: the field set the step returns.
ResearchOutput(inp, research_content, web, academic) ==
    DictSet(DictSet(inp, "research", research_content),
            "research_sources",
            [web |-> TitleAndUrl(web), academic |-> TitleAndUrl(academic)])

\* process, lines 77-89: the model answered; the return reads web_sources.
ResearchLlmReturned(text) ==
    /\ apc = "research_llm"
    /\ inflight' = inflight \ {Req("research", 0, 0)}
    /\ UNCHANGED loc
    /\ IF loc.sources_bound
       THEN Return(ResearchOutput(arg, text, loc.web_sources, loc.academic_sources),
                   Answered(events, Req("research", 0, 0)))
       ELSE Raise("UnboundLocalError", Answered(events, Req("research", 0, 0)))

\* process, line 77: the model call raised; no handler encloses it.
ResearchLlmRaised ==
    /\ apc = "research_llm"
    /\ inflight' = inflight \ {Req("research", 0, 0)}
    /\ UNCHANGED loc
    /\ Raise("LLMError", Answered(events, Req("research", 0, 0)))

(***************************************************************************)
(* agents/structurer.py                                                    *)
(***************************************************************************)
\* process, lines 24-27: the week count, 6 when the duration has none.
NumWeeks(course_duration) ==
    IF LeadingInt(course_duration).ok THEN LeadingInt(course_duration).val ELSE 6

\* process, lines 19-74: up to the await of the model call.
StructureStart ==
    /\ apc = "structure_start"
    /\ apc' = "structure_llm"
    /\ loc' = [topic |-> DictGet(arg, "topic", ""),
               research |-> DictGet(arg, "research", ""),
               course_duration |-> DictGet(arg, "course_duration", Str6Weeks),
               num_weeks |-> NumWeeks(DictGet(arg, "course_duration", Str6Weeks))]
    /\ inflight' = inflight \cup {Req("structure", 0, 0)}
    /\ events' = Issued(events, Req("structure", 0, 0))
    /\ UNCHANGED << cleanVars, uiVars, courseVars, researchVars, serviceVars, coordVars, active, arg, aret, aerr, invoked, returned >>

\* StructureOutput without the keys of the input.
StructureOutputOnly(inp, course_structure) ==
    [n \in {"structure"} |-> course_structure]

\* process, lines 81-84: the field set the step returns.
StructureOutput(inp, course_structure) == DictSet(inp, "structure", course_structure)

\* process, lines 74-84: the model answered with the structure text.
StructureLlmReturned(text) ==
    /\ apc = "structure_llm"
    /\ inflight' = inflight \ {Req("structure", 0, 0)}
    /\ UNCHANGED loc
    /\ Return(StructureOutput(arg, text), Answered(events, Req("structure", 0, 0)))

\* process, line 74: the model call raised; no handler encloses it.
StructureLlmRaised ==
    /\ apc = "structure_llm"
    /\ inflight' = inflight \ {Req("structure", 0, 0)}
    /\ UNCHANGED loc
    /\ Raise("LLMError", Answered(events, Req("structure", 0, 0)))

(***************************************************************************)
(* The structure texts the model may answer the Structure step with.       *)
(***************************************************************************)
\* Valid JSON as it stands: two modules, three lessons.
TextDirect ==
    << "{", "\"", "t", "i", "t", "l", "e", "\"", ":", "\"", "C", "\"", ",",
       "\"", "d", "e", "s", "c", "r", "i", "p", "t", "i", "o", "n", "\"",
       ":", "\"", "D", "\"", ",", "\"", "m", "o", "d", "u", "l", "e", "s",
       "\"", ":", "[", "{", "\"", "t", "i", "t", "l", "e", "\"", ":", "\"",
       "M", "1", "\"", ",", "\"", "l", "e", "s", "s", "o", "n", "s", "\"",
       ":", "[", "{", "\"", "t", "i", "t", "l", "e", "\"", ":", "\"", "L",
       "1", "\"", ",", "\"", "d", "e", "s", "c", "r", "i", "p", "t", "i",
       "o", "n", "\"", ":", "\"", "d", "\"", "}", ",", "{", "\"", "t", "i",
       "t", "l", "e", "\"", ":", "\"", "L", "2", "\"", "}", "]", "}", ",",
       "{", "\"", "t", "i", "t", "l", "e", "\"", ":", "\"", "M", "2", "\"",
       ",", "\"", "l", "e", "s", "s", "o", "n", "s", "\"", ":", "[", "{",
       "\"", "t", "i", "t", "l", "e", "\"", ":", "\"", "L", "3", "\"", "}",
       "]", "}", "]", "}" >>

\* Fenced and single-quoted: parses once the quotes are fixed.
TextFenced ==
    << Backquote, Backquote, Backquote, "j", "s", "o", "n", "\n", "{", "'",
       "t", "i", "t", "l", "e", "'", ":", "'", "C", "'", ",", "'", "m", "o",
       "d", "u", "l", "e", "s", "'", ":", "[", "{", "'", "t", "i", "t", "l",
       "e", "'", ":", "'", "M", "1", "'", ",", "'", "l", "e", "s", "s", "o",
       "n", "s", "'", ":", "[", "{", "'", "t", "i", "t", "l", "e", "'", ":",
       "'", "L", "1", "'", "}", "]", "}", "]", "}", "\n", Backquote,
       Backquote, Backquote >>

\* An object between prose: parses as the brace span; M1 has no lesson.
TextNoisy ==
    << "O", "u", "t", "l", "i", "n", "e", ":", " ", "{", "\"", "t", "i", "t",
       "l", "e", "\"", ":", "\"", "C", "\"", ",", "\"", "m", "o", "d", "u",
       "l", "e", "s", "\"", ":", "[", "{", "\"", "t", "i", "t", "l", "e",
       "\"", ":", "\"", "M", "1", "\"", ",", "\"", "l", "e", "s", "s", "o",
       "n", "s", "\"", ":", "[", "]", "}", ",", "{", "\"", "t", "i", "t",
       "l", "e", "\"", ":", "\"", "M", "2", "\"", ",", "\"", "l", "e", "s",
       "s", "o", "n", "s", "\"", ":", "[", "{", "\"", "t", "i", "t", "l",
       "e", "\"", ":", "\"", "L", "1", "\"", "}", "]", "}", "]", "}", " ",
       "E", "n", "j", "o", "y", "!" >>

\* An object without modules.
TextNoModules ==
    << "{", "\"", "t", "i", "t", "l", "e", "\"", ":", "\"", "C", "\"", "}" >>

\* Valid JSON that is no object.
TextList ==
    << "[", "1", "]" >>

\* An object whose second module is no object.
TextBadModule ==
    << "{", "\"", "t", "i", "t", "l", "e", "\"", ":", "\"", "C", "\"", ",",
       "\"", "m", "o", "d", "u", "l", "e", "s", "\"", ":", "[", "{", "\"",
       "t", "i", "t", "l", "e", "\"", ":", "\"", "M", "1", "\"", ",", "\"",
       "l", "e", "s", "s", "o", "n", "s", "\"", ":", "[", "{", "\"", "t",
       "i", "t", "l", "e", "\"", ":", "\"", "L", "1", "\"", "}", "]", "}",
       ",", "5", "]", "}" >>

\* Prose without JSON.
TextGarbage ==
    << "I", " ", "c", "a", "n", "'", "t", " ", "d", "o", " ", "t", "h", "a",
       "t" >>

\* JSON cut short.
TextTruncated ==
    << "{", "\"", "t", "i", "t", "l", "e", "\"", ":", "\"", "C", "\"", ",",
       "\"", "m", "o", "d", "u", "l", "e", "s", "\"", ":", "[" >>

\* The empty string.
TextEmpty ==
    << >>

StructureTexts ==
    { TextDirect, TextFenced, TextNoisy, TextNoModules, TextList,
      TextBadModule, TextGarbage, TextTruncated, TextEmpty }

(***************************************************************************)
(* The model's answers to a lesson prompt and to the references prompt, as *)
(* sequences of tokens: the markers, "\n", " ", "-" and words.             *)
(***************************************************************************)
LessonResponses ==
    { << "CONTENT:", "\n", "body", "\n", "\n", "RESOURCES:", "\n",
         "-", " ", "res1", "\n", " ", "\n", "-", "res2", "\n" >>,
      << "body", " ", "more" >> }

ReferenceResponses ==
    { << "\n", "ref1", "\n", "\n", " ", "ref2", " ", "\n" >> }

\* text.split(sep), sep one token.
RECURSIVE SplitOn(_, _)
SplitOn(text, sep) ==
    IF \A i \in 1..Len(text) : text[i] # sep THEN << text >>
    ELSE LET k == Min({i \in 1..Len(text) : text[i] = sep})
         IN  << SubSeq(text, 1, k - 1) >> \o SplitOn(SubSeq(text, k + 1, Len(text)), sep)

\* text.replace(tok, "")
Without(text, tok) == SelectSeq(text, LAMBDA x : x # tok)

\* line.lstrip('-')
RECURSIVE LStripHyphen(_)
LStripHyphen(s) == IF s # << >> /\ s[1] = "-" THEN LStripHyphen(Tail(s)) ELSE s

\* [f(line) for line in lines if line.strip()]
StrippedLines(lines) ==
    LET kept == SelectSeq(lines, LAMBDA x : Strip(x) # << >>)
    IN  [i \in 1..Len(kept) |-> Strip(kept[i])]

\* process, lines 96-107 of content_generator.py: content and resources.
ParseLessonResponse(response_text) ==
    LET content_parts == SplitOn(response_text, "RESOURCES:")
        lines == IF Len(content_parts) > 1
                 THEN StrippedLines(SplitOn(Strip(content_parts[2]), "\n"))
                 ELSE << >>
    IN  [content |-> Strip(Without(content_parts[1], "CONTENT:")),
         resources |-> [i \in 1..Len(lines) |-> Strip(LStripHyphen(lines[i]))]]

\* process, line 130 of content_generator.py: one reference per line.
ParseReferences(content) == StrippedLines(SplitOn(Strip(content), "\n"))

(***************************************************************************)
(* agents/content_generator.py                                             *)
(***************************************************************************)
\* What iterating a parsed value yields: the items of a list, the characters
\* of a str, the keys of a dict (strs, one per element); ok = FALSE for the
\* TypeError of a value that is not iterable.
Items(x) ==
    IF x.t = "list" THEN [ok |-> TRUE, items |-> x.v]
    ELSE IF x.t = "str" THEN
        [ok |-> TRUE, items |-> [i \in 1..Len(x.v) |-> JStr("c")]]
    ELSE IF x.t = "dict" THEN
        [ok |-> TRUE, items |-> [i \in 1..Cardinality(DOMAIN x.v) |-> JStr("k")]]
    ELSE [ok |-> FALSE, items |-> << >>]

\* ParseErrorOutput without the "error" entry.
ParseErrorOutputNoError(inp) ==
    DictSet(inp, "content_structure",
            [course_title |-> JStr("Error in structure parsing"),
             description |-> JStr("Could not generate content due to structure format issues"),
             modules |-> << >>,
             references |-> << >>])

\* process, lines 139-153: the output of the JSONDecodeError arm.
ParseErrorOutput(inp) ==
    DictSet(DictSet(inp, "error", "Failed to parse course structure JSON"),
            "content_structure",
            [course_title |-> JStr("Error in structure parsing"),
             description |-> JStr("Could not generate content due to structure format issues"),
             modules |-> << >>,
             references |-> << >>])

\* process, lines 154-166: the output of the Exception arm.
UnexpectedErrorOutput(inp) ==
    DictSet(DictSet(inp, "error", "Error in content generation"),
            "content_structure",
            [course_title |-> JStr("Error in content generation"),
             description |-> JStr("An unexpected error occurred"),
             modules |-> << >>,
             references |-> << >>])

\* process, lines 134-137: the output of a completed generation.
ContentOutput(inp, content_structure) ==
    DictSet(inp, "content_structure", content_structure)

\* process, lines 54-66 and 116: from lesson l of module m on, the loops run
\* to the next lesson to generate ("lesson"), to their end ("refs"), or to a
\* module or lesson that has no get ("error").  cs is content_structure and mc
\* the module_content of module m.
RECURSIVE NextStop(_, _, _, _, _)
NextStop(mods, cs, m, l, mc) ==
    IF m > Len(mods) THEN [kind |-> "refs", cs |-> cs, mc |-> mc, m |-> m, l |-> l]
    ELSE IF mods[m].t # "dict" THEN
        [kind |-> "error", cs |-> cs, mc |-> mc, m |-> m, l |-> l]
    ELSE
    LET cur == IF l = 1
               THEN [title |-> DictGet(mods[m].v, "title", JStr("")), lessons |-> << >>]
               ELSE mc
        ls == Items(DictGet(mods[m].v, "lessons", JList(<< >>)))
    IN  IF ~ls.ok THEN [kind |-> "error", cs |-> cs, mc |-> cur, m |-> m, l |-> l]
        ELSE IF l > Len(ls.items) THEN
            NextStop(mods, [cs EXCEPT !.modules = Append(@, cur)], m + 1, 1, cur)
        ELSE IF ls.items[l].t # "dict" THEN
            [kind |-> "error", cs |-> cs, mc |-> cur, m |-> m, l |-> l]
        ELSE [kind |-> "lesson", cs |-> cs, mc |-> cur, m |-> m, l |-> l]

\* ContentContinue that issues the next call while the call before it is
\* still in flight.
ContentContinueConcurrent(stop, mods, left, evs) ==
    IF stop.kind = "error"
    THEN /\ inflight' = left
         /\ UNCHANGED loc
         /\ Return(UnexpectedErrorOutput(arg), evs)
    ELSE LET req == IF stop.kind = "lesson"
                    THEN Req("lesson", stop.m, stop.l)
                    ELSE Req("references", 0, 0)
         IN  /\ apc' = IF stop.kind = "lesson" THEN "content_lesson" ELSE "content_refs"
             /\ loc' = [topic |-> DictGet(arg, "topic", ""),
                        parsed |-> TRUE,
                        modules |-> mods,
                        content_structure |-> stop.cs,
                        module_content |-> stop.mc,
                        m |-> stop.m,
                        l |-> stop.l]
             /\ inflight' = inflight \cup {req}
             /\ events' = Issued(events, req)
             /\ UNCHANGED << cleanVars, uiVars, courseVars, researchVars, serviceVars, coordVars, active, arg, aret, aerr, invoked, returned >>

\* The step goes on from stop: it issues the call of the next lesson or of the
\* references, or returns the output of the Exception arm.  left are the calls
\* still in flight and evs the events up to there.
ContentContinue(stop, mods, left, evs) ==
    IF stop.kind = "error"
    THEN /\ inflight' = left
         /\ UNCHANGED loc
         /\ Return(UnexpectedErrorOutput(arg), evs)
    ELSE LET req == IF stop.kind = "lesson"
                    THEN Req("lesson", stop.m, stop.l)
                    ELSE Req("references", 0, 0)
         IN  /\ apc' = IF stop.kind = "lesson" THEN "content_lesson" ELSE "content_refs"
             /\ loc' = [topic |-> DictGet(arg, "topic", ""),
                        parsed |-> TRUE,
                        modules |-> mods,
                        content_structure |-> stop.cs,
                        module_content |-> stop.mc,
                        m |-> stop.m,
                        l |-> stop.l]
             /\ inflight' = left \cup {req}
             /\ events' = Issued(evs, req)
             /\ UNCHANGED << cleanVars, uiVars, courseVars, researchVars, serviceVars, coordVars, active, arg, aret, aerr, invoked, returned >>

\* ContentStart that lets the JSONDecodeError of the structure text leave the
\* step.
ContentStartAborting ==
    /\ apc = "content_start"
    /\ LET structure == clean_json_string(DictGet(arg, "structure", << >>))
       IN  IF ~structure.ok /\ structure.exc = "JSONDecodeError"
           THEN /\ loc' = [parsed |-> FALSE]
                /\ UNCHANGED inflight
                /\ Raise("JSONDecodeError", events)
           ELSE IF ~structure.ok \/ structure.val.t # "dict"
                   \/ ~Items(DictGet(structure.val.v, "modules", JList(<< >>))).ok
           THEN /\ loc' = [parsed |-> TRUE]
                /\ UNCHANGED inflight
                /\ Return(UnexpectedErrorOutput(arg), events)
           ELSE LET mods == Items(DictGet(structure.val.v, "modules", JList(<< >>))).items
                    cs == [course_title |-> DictGet(structure.val.v, "title", JStr("")),
                           description |-> DictGet(structure.val.v, "description", JStr("")),
                           modules |-> << >>,
                           references |-> << >>]
                IN  ContentContinue(NextStop(mods, cs, 1, 1, << >>), mods, inflight, events)

\* process, lines 24-66: the structure text is parsed; the step returns the
\* output of an except arm or issues its first call.
ContentStart ==
    /\ apc = "content_start"
    /\ LET structure == clean_json_string(DictGet(arg, "structure", << >>))
       IN  IF ~structure.ok /\ structure.exc = "JSONDecodeError"
           THEN /\ loc' = [parsed |-> FALSE]
                /\ UNCHANGED inflight
                /\ Return(ParseErrorOutput(arg), events)
           ELSE IF ~structure.ok \/ structure.val.t # "dict"
                   \/ ~Items(DictGet(structure.val.v, "modules", JList(<< >>))).ok
           THEN /\ loc' = [parsed |-> TRUE]
                /\ UNCHANGED inflight
                /\ Return(UnexpectedErrorOutput(arg), events)
           ELSE LET mods == Items(DictGet(structure.val.v, "modules", JList(<< >>))).items
                    cs == [course_title |-> DictGet(structure.val.v, "title", JStr("")),
                           description |-> DictGet(structure.val.v, "description", JStr("")),
                           modules |-> << >>,
                           references |-> << >>]
                IN  ContentContinue(NextStop(mods, cs, 1, 1, << >>), mods, inflight, events)

\* ContentLessonReturned that leaves the lesson out of module_content.
ContentLessonReturnedDropping(response_text) ==
    /\ apc = "content_lesson"
    /\ ContentContinue(NextStop(loc.modules, loc.content_structure, loc.m, loc.l + 1,
                                loc.module_content),
                       loc.modules,
                       inflight \ {Req("lesson", loc.m, loc.l)},
                       Answered(events, Req("lesson", loc.m, loc.l)))

\* process, lines 92-116: the model answered the prompt of lesson l of module m.
ContentLessonReturned(response_text) ==
    /\ apc = "content_lesson"
    /\ LET lesson == Items(DictGet(loc.modules[loc.m].v, "lessons", JList(<< >>))).items[loc.l]
           parts == ParseLessonResponse(response_text)
           mc == [loc.module_content EXCEPT !.lessons =
                     Append(@, [title |-> DictGet(lesson.v, "title", JStr("")),
                                content |-> parts.content,
                                resources |-> parts.resources])]
       IN  ContentContinue(NextStop(loc.modules, loc.content_structure, loc.m, loc.l + 1, mc),
                           loc.modules,
                           inflight \ {Req("lesson", loc.m, loc.l)},
                           Answered(events, Req("lesson", loc.m, loc.l)))

\* process, lines 92 and 154-166: the model call of a lesson raised.
ContentLessonRaised ==
    /\ apc = "content_lesson"
    /\ inflight' = inflight \ {Req("lesson", loc.m, loc.l)}
    /\ UNCHANGED loc
    /\ Return(UnexpectedErrorOutput(arg), Answered(events, Req("lesson", loc.m, loc.l)))

\* process, lines 127-137: the model answered the references prompt.
ContentReferencesReturned(content) ==
    /\ apc = "content_refs"
    /\ inflight' = inflight \ {Req("references", 0, 0)}
    /\ UNCHANGED loc
    /\ Return(ContentOutput(arg, [loc.content_structure EXCEPT
                                     !.references = ParseReferences(content)]),
              Answered(events, Req("references", 0, 0)))

\* process, lines 127 and 154-166: the model call of the references raised.
ContentReferencesRaised ==
    /\ apc = "content_refs"
    /\ inflight' = inflight \ {Req("references", 0, 0)}
    /\ UNCHANGED loc
    /\ Return(UnexpectedErrorOutput(arg), Answered(events, Req("references", 0, 0)))

(***************************************************************************)
(* agents/validator.py                                                     *)
(***************************************************************************)
\* The model's review text.
FeedbackTexts == {"feedback"}

\* process, lines 54-63: from module k of modules[:2] on, the loop runs to the
\* next module with a lesson to review ("lesson") or to its end
\* ("consistency"); a module without lessons adds an issue.
RECURSIVE NextReview(_, _, _)
NextReview(modules, k, issues) ==
    IF k > Len(modules) \/ k > 2 THEN [kind |-> "consistency", k |-> k, issues |-> issues]
    ELSE IF Len(DictGet(modules[k], "lessons", << >>)) = 0 THEN
        NextReview(modules, k + 1,
                   Append(issues, [module |-> DictGet(modules[k], "title", JStr("")),
                                   issue |-> "has no lessons"]))
    ELSE [kind |-> "lesson", k |-> k, issues |-> issues]

\* process, lines 17-45: up to the await of the course-level review.
ValidateStart ==
    /\ apc = "validate_start"
    /\ apc' = "validate_course"
    /\ loc' = [topic |-> DictGet(arg, "topic", ""),
               content_structure |-> DictGet(arg, "content_structure", << >>),
               modules |-> DictGet(DictGet(arg, "content_structure", << >>), "modules", << >>),
               validation_issues |-> << >>,
               improvements |-> << >>,
               module_index |-> 0]
    /\ inflight' = inflight \cup {Req("course_review", 0, 0)}
    /\ events' = Issued(events, Req("course_review", 0, 0))
    /\ UNCHANGED << cleanVars, uiVars, courseVars, researchVars, serviceVars, coordVars, active, arg, aret, aerr, invoked, returned >>

\* The step goes on from stop, the next review of the loop or the consistency
\* check, with the feedback of the call just answered.
ValidateContinue(stop, improvement, left, evs) ==
    LET req == IF stop.kind = "lesson"
               THEN Req("lesson_review", stop.k, 1)
               ELSE Req("consistency_review", 0, 0)
    IN  /\ apc' = IF stop.kind = "lesson" THEN "validate_lesson" ELSE "validate_consistency"
        /\ loc' = [loc EXCEPT !.validation_issues = stop.issues,
                              !.improvements = Append(@, improvement),
                              !.module_index = stop.k]
        /\ inflight' = left \cup {req}
        /\ events' = Issued(evs, req)
        /\ UNCHANGED << cleanVars, uiVars, courseVars, researchVars, serviceVars, coordVars, active, arg, aret, aerr, invoked, returned >>

\* process, lines 45-54: the model answered the course-level review.
ValidateCourseReturned(feedback) ==
    /\ apc = "validate_course"
    /\ ValidateContinue(NextReview(loc.modules, 1, loc.validation_issues),
                        [type |-> "course_level", feedback |-> feedback],
                        inflight \ {Req("course_review", 0, 0)},
                        Answered(events, Req("course_review", 0, 0)))

\* process, lines 90-99: the model answered the review of a module's first lesson.
ValidateLessonReturned(feedback) ==
    /\ apc = "validate_lesson"
    /\ ValidateContinue(NextReview(loc.modules, loc.module_index + 1, loc.validation_issues),
                        [type |-> "lesson_level", feedback |-> feedback],
                        inflight \ {Req("lesson_review", loc.module_index, 1)},
                        Answered(events, Req("lesson_review", loc.module_index, 1)))

\* ValidateOutput that folds the feedback into the content structure.
ValidateOutputWithFeedback(inp, content_structure, improvements, validation_issues) ==
    DictSet(inp, "content_structure",
            DictSet(content_structure, "validation_results",
                    [improvements |-> improvements, issues |-> validation_issues]))

\* process, lines 133-136: the field set the step returns; the improvements
\* and the issues are logged and dropped.
ValidateOutput(inp, content_structure, improvements, validation_issues) ==
    DictSet(inp, "content_structure", content_structure)

\* process, lines 117-136: the model answered the consistency check.
ValidateConsistencyReturned(feedback) ==
    /\ apc = "validate_consistency"
    /\ inflight' = inflight \ {Req("consistency_review", 0, 0)}
    /\ loc' = [loc EXCEPT !.improvements =
                  Append(@, [type |-> "structure_level", feedback |-> feedback])]
    /\ Return(ValidateOutput(arg, loc.content_structure, loc'.improvements,
                             loc.validation_issues),
              Answered(events, Req("consistency_review", 0, 0)))

\* process, lines 44, 90, 117: a review call raised; no handler encloses them.
ValidateLlmRaised ==
    /\ apc \in {"validate_course", "validate_lesson", "validate_consistency"}
    /\ inflight' = {}
    /\ UNCHANGED loc
    /\ Raise("LLMError", Answered(events, CHOOSE r \in inflight : TRUE))

(***************************************************************************)
(* CoordinatorAgent.                                                       *)
(***************************************************************************)
\* Where the process of a step of each kind starts.
StartOf(kind) ==
    CASE kind = "researcher" -> "research_start"
      [] kind = "structurer" -> "structure_start"
      [] kind = "content_generator" -> "content_start"
      [] kind = "validator" -> "validate_start"
      [] OTHER -> "stub"

register_agent(agent_name, kind) ==
    /\ cpc = "idle"
    /\ agents' = DictSet(agents, agent_name, kind)
    /\ UNCHANGED << cleanVars, uiVars, courseVars, researchVars, serviceVars, workflow, cpc, idx, inputs, current_input,
                    results, output, error, callVars, histVars >>

set_workflow(wf) ==
    /\ cpc = "idle"
    /\ workflow' = wf
    /\ UNCHANGED << cleanVars, uiVars, courseVars, researchVars, serviceVars, agents, cpc, idx, inputs, current_input,
                    results, output, error, callVars, histVars >>

\* process, lines 26-27: the locals before the loop.
ProcessBegin(inp) ==
    /\ cpc = "idle"
    /\ inputs' = inp
    /\ current_input' = inp
    /\ results' = [n \in {"initial_input"} |-> inp]
    /\ idx' = 1
    /\ cpc' = "loop"
    /\ UNCHANGED << cleanVars, uiVars, courseVars, researchVars, serviceVars, agents, workflow, output, error, callVars, histVars >>

\* process, lines 30-31: the name of this iteration is not registered.
ProcessUnregistered ==
    /\ cpc = "loop"
    /\ idx <= Len(workflow)
    /\ workflow[idx] \notin DOMAIN agents
    /\ cpc' = "raised"
    /\ error' = "ValueError"
    /\ UNCHANGED << cleanVars, uiVars, courseVars, researchVars, serviceVars, agents, workflow, idx, inputs, current_input, results,
                    output, callVars, histVars >>

\* process, lines 33-36: the call agent.process(current_input).
ProcessDelegate ==
    /\ cpc = "loop"
    /\ idx <= Len(workflow)
    /\ workflow[idx] \in DOMAIN agents
    /\ cpc' = "await"
    /\ active' = agents[workflow[idx]]
    /\ apc' = StartOf(agents[workflow[idx]])
    /\ arg' = current_input
    /\ loc' = << >>
    /\ invoked' = Append(invoked, [name |-> workflow[idx], input |-> current_input])
    /\ events' = Append(events, [ev |-> "begin", who |-> workflow[idx]])
    /\ UNCHANGED << cleanVars, uiVars, courseVars, researchVars, serviceVars, agents, workflow, idx, inputs, current_input, results,
                    output, error, aret, aerr, inflight, returned >>

\* ProcessResume that hands every step the input of the step before it.
ProcessResumeNoThread ==
    /\ cpc = "await"
    /\ apc = "returned"
    /\ current_input' = current_input
    /\ results' = DictSet(results, workflow[idx], aret)
    /\ idx' = idx + 1
    /\ cpc' = "loop"
    /\ active' = None
    /\ apc' = "none"
    /\ UNCHANGED << cleanVars, uiVars, courseVars, researchVars, serviceVars, agents, workflow, inputs, output, error, arg, aret, aerr,
                    loc, inflight, histVars >>

\* ProcessResume that records the step's input in the trace, not its output.
ProcessResumeStoreInput ==
    /\ cpc = "await"
    /\ apc = "returned"
    /\ current_input' = aret
    /\ results' = DictSet(results, workflow[idx], current_input)
    /\ idx' = idx + 1
    /\ cpc' = "loop"
    /\ active' = None
    /\ apc' = "none"
    /\ UNCHANGED << cleanVars, uiVars, courseVars, researchVars, serviceVars, agents, workflow, inputs, output, error, arg, aret, aerr,
                    loc, inflight, histVars >>

\* process, lines 36-37: the awaited step returned.
ProcessResume ==
    /\ cpc = "await"
    /\ apc = "returned"
    /\ current_input' = aret
    /\ results' = DictSet(results, workflow[idx], aret)
    /\ idx' = idx + 1
    /\ cpc' = "loop"
    /\ active' = None
    /\ apc' = "none"
    /\ UNCHANGED << cleanVars, uiVars, courseVars, researchVars, serviceVars, agents, workflow, inputs, output, error, arg, aret, aerr,
                    loc, inflight, histVars >>

\* process, line 36: the awaited step raised; nothing in process catches it.
ProcessPropagate ==
    /\ cpc = "await"
    /\ apc = "raised"
    /\ cpc' = "raised"
    /\ error' = aerr
    /\ UNCHANGED << cleanVars, uiVars, courseVars, researchVars, serviceVars, agents, workflow, idx, inputs, current_input, results,
                    output, callVars, histVars >>

\* process, lines 39-42: the loop is over.
ProcessReturn ==
    /\ cpc = "loop"
    /\ idx > Len(workflow)
    /\ cpc' = "returned"
    /\ output' = [course |-> current_input, process_results |-> results]
    /\ UNCHANGED << cleanVars, uiVars, courseVars, researchVars, serviceVars, agents, workflow, idx, inputs, current_input, results,
                    error, callVars, histVars >>

Process ==
    \/ ProcessUnregistered
    \/ ProcessDelegate
    \/ ProcessResume
    \/ ProcessPropagate
    \/ ProcessReturn

(***************************************************************************)
(* The executor alone, over abstract steps: any registry and any workflow. *)
(***************************************************************************)
InitCoord ==
    /\ agents = << >>
    /\ workflow = << >>
    /\ cpc = "idle"
    /\ idx = 0
    /\ inputs = None
    /\ current_input = None
    /\ results = None
    /\ output = None
    /\ error = None
    /\ active = None
    /\ apc = "none"
    /\ arg = None
    /\ aret = None
    /\ aerr = None
    /\ loc = << >>
    /\ inflight = {}
    /\ invoked = << >>
    /\ returned = << >>
    /\ events = << >>
    /\ course = [modules |-> << >>, course_duration |-> Str6Weeks]
    /\ before = << >>
    /\ cop = "new"
    /\ roundtrip = [stage |-> "none"]
    /\ app = "none"
    /\ course_tasks = << >>
    /\ files = << >>
    /\ coros = << >>
    /\ next_id = 0
    /\ run = [on |-> FALSE, pc |-> "none"]
    /\ gather = [pc |-> "idle"]
    /\ CleanIdle
    /\ UiAbsent

NextCoord ==
    \/ \E n \in StepNames : register_agent(n, "stub")
    \/ \E wf \in Workflows : set_workflow(wf)
    \/ \E inp \in FieldSets : ProcessBegin(inp)
    \/ Process
    \/ \E out \in FieldSets : StubReturn(out)
    \/ StubRaise

SpecCoord == InitCoord /\ [][NextCoord]_vars

(***************************************************************************)
(* The pipeline of a generation task (api/routes/courses.py, lines         *)
(* 170-186): the four steps registered under their names.  The steps are   *)
(* also run as the first step of shorter workflows, where the field set    *)
(* lacks the keys the earlier steps write, and under a workflow that names *)
(* a step nobody registered.                                               *)
(***************************************************************************)
StandardWorkflow == << "researcher", "structurer", "content_generator", "validator" >>

PipelineWorkflows ==
    { StandardWorkflow,
      << "content_generator", "validator" >>,
      << "validator" >>,
      << "researcher", "reviewer" >> }

InitPipeline ==
    /\ agents = [n \in Range(StandardWorkflow) |-> n]
    /\ workflow \in PipelineWorkflows
    /\ cpc = "idle"
    /\ idx = 0
    /\ inputs = None
    /\ current_input = None
    /\ results = None
    /\ output = None
    /\ error = None
    /\ active = None
    /\ apc = "none"
    /\ arg = None
    /\ aret = None
    /\ aerr = None
    /\ loc = << >>
    /\ inflight = {}
    /\ invoked = << >>
    /\ returned = << >>
    /\ events = << >>
    /\ course = [modules |-> << >>, course_duration |-> Str6Weeks]
    /\ before = << >>
    /\ cop = "new"
    /\ roundtrip = [stage |-> "none"]
    /\ app = "none"
    /\ course_tasks = << >>
    /\ files = << >>
    /\ coros = << >>
    /\ next_id = 0
    /\ run = [on |-> FALSE, pc |-> "none"]
    /\ gather = [pc |-> "idle"]
    /\ CleanIdle
    /\ UiAbsent

NextPipeline ==
    \/ \E inp \in PipelineInputs : ProcessBegin(inp)
    \/ Process
    \/ ResearchStart
    \/ \E data \in GatherResults : ResearchGathered(data)
    \/ ResearchGatherRaised
    \/ \E text \in ResearchTexts : ResearchLlmReturned(text)
    \/ ResearchLlmRaised
    \/ StructureStart
    \/ \E text \in StructureTexts : StructureLlmReturned(text)
    \/ StructureLlmRaised
    \/ ContentStart
    \/ \E text \in LessonResponses : ContentLessonReturned(text)
    \/ ContentLessonRaised
    \/ \E text \in ReferenceResponses : ContentReferencesReturned(text)
    \/ ContentReferencesRaised
    \/ ValidateStart
    \/ \E text \in FeedbackTexts : ValidateCourseReturned(text)
    \/ \E text \in FeedbackTexts : ValidateLessonReturned(text)
    \/ \E text \in FeedbackTexts : ValidateConsistencyReturned(text)
    \/ ValidateLlmRaised

SpecPipeline == InitPipeline /\ [][NextPipeline]_vars

(***************************************************************************)
(* models/course.py: a Course, its modules and their resize to the week    *)
(* count of course_duration.                                               *)
(***************************************************************************)
\* str(n) of a natural number, as characters.
DigitChar(d) ==
    CASE d = 0 -> "0" [] d = 1 -> "1" [] d = 2 -> "2" [] d = 3 -> "3"
      [] d = 4 -> "4" [] d = 5 -> "5" [] d = 6 -> "6" [] d = 7 -> "7"
      [] d = 8 -> "8" [] d = 9 -> "9"

RECURSIVE NatChars(_)
NatChars(n) ==
    IF n < 10 THEN << DigitChar(n) >>
    ELSE NatChars(n \div 10) \o << DigitChar(n % 10) >>

\* f"{n} weeks"
Weeks(n) == NatChars(n) \o << " ", "w", "e", "e", "k", "s" >>

\* The duration strings a course is given: "<N> weeks", and strings whose
\* first token is a negative integer, no integer, or missing.
Durations ==
    { Weeks(n) : n \in 0..MaxWeeks }
    \cup { << "-", "1", " ", "w", "e", "e", "k", "s" >>,
           StrWeeks,
           << "U", "n", "k", "n", "o", "w", "n", " ", "D", "u", "r", "a", "t",
              "i", "o", "n" >>,
           << " " >>,
           << >> }

\* Module.__init__: lessons [] and duration "1 week" unless given.
Module(title, description) ==
    [title |-> title, description |-> description, lessons |-> << >>,
     duration |-> "1 week"]

\* Module.__init__ with lessons and a duration given.
ModuleWith(title, description, lessons, duration) ==
    [title |-> title, description |-> description, lessons |-> lessons,
     duration |-> duration]

\* Lesson.__init__
Lesson(title, description, content, resources) ==
    [title |-> title, description |-> description, content |-> content,
     resources |-> resources]

\* The modules added to a course by its builder.
GivenModules ==
    { Module(<< "A" >>, "about A"),
      Module(<< "B" >>, "about B"),
      ModuleWith(<< "C" >>, "", << Lesson("L1", "first", "text", << "res" >>),
                                   Lesson("L2", "", "", << >>) >>, "2 weeks") }

\* Module(f"Module {i+1}", "Content to be developed"), i counted from 0.
PlaceholderModuleZeroBased(i) ==
    Module(<< "M", "o", "d", "u", "l", "e", " " >> \o NatChars(i),
           "Content to be developed")

PlaceholderModule(i) ==
    Module(<< "M", "o", "d", "u", "l", "e", " " >> \o NatChars(i + 1),
           "Content to be developed")

\* Course.get_duration_in_weeks
get_duration_in_weeks(c) ==
    IF LeadingInt(c.course_duration).ok
    THEN LeadingInt(c.course_duration).val
    ELSE Len(c.modules)

\* seq[:n], n of either sign.
SliceTo(seq, n) ==
    IF n >= 0 THEN SubSeq(seq, 1, IF n < Len(seq) THEN n ELSE Len(seq))
    ELSE SubSeq(seq, 1, IF Len(seq) + n > 0 THEN Len(seq) + n ELSE 0)

\* The instants datetime.now() answers with: seconds and microseconds.
Instants ==
    { [sec |-> 7, us |-> 0], [sec |-> 12, us |-> 5000] }

\* Course.__init__ with no modules; now is datetime.now().
Course(title, description, topic, depth, course_duration, references, now) ==
    [title |-> title,
     description |-> description,
     topic |-> topic,
     depth |-> depth,
     course_duration |-> course_duration,
     modules |-> << >>,
     references |-> references,
     created_at |-> now,
     updated_at |-> now,
     validation_results |-> << >>]

\* c after c.adjust_modules_to_duration()
Adjusted(c) ==
    LET num_weeks == get_duration_in_weeks(c)
        k == Len(c.modules)
    IN  IF k > num_weeks
        THEN [c EXCEPT !.modules = SliceTo(@, num_weeks)]
        ELSE IF k < num_weeks
        THEN [c EXCEPT !.modules =
                 @ \o [j \in 1..(num_weeks - k) |-> PlaceholderModule(k + j - 1)]]
        ELSE c

\* A course is constructed.
NewCourse(d, now) ==
    /\ course' = Course("Title", "Description", "T", "intermediate", d, << >>, now)
    /\ before' = << >>
    /\ cop' = "new"
    /\ roundtrip' = [stage |-> "none"]
    /\ UNCHANGED << cleanVars, uiVars, researchVars, serviceVars, coordVars, callVars, histVars >>

\* Course.add_module
add_module(module) ==
    /\ Len(course.modules) < MaxModules
    /\ course' = [course EXCEPT !.modules = Append(@, module)]
    /\ before' = course.modules
    /\ cop' = "add_module"
    /\ roundtrip' = [stage |-> "none"]
    /\ UNCHANGED << cleanVars, uiVars, researchVars, serviceVars, coordVars, callVars, histVars >>

\* Course.add_reference
add_reference(reference) ==
    /\ Len(course.references) < MaxReferences
    /\ course' = [course EXCEPT !.references = Append(@, reference)]
    /\ before' = course.modules
    /\ cop' = "add_reference"
    /\ roundtrip' = [stage |-> "none"]
    /\ UNCHANGED << cleanVars, uiVars, researchVars, serviceVars, coordVars, callVars, histVars >>

\* Course.adjust_modules_to_duration
adjust_modules_to_duration ==
    /\ course' = Adjusted(course)
    /\ before' = course.modules
    /\ cop' = "adjust_modules_to_duration"
    /\ roundtrip' = [stage |-> "none"]
    /\ UNCHANGED << cleanVars, uiVars, researchVars, serviceVars, coordVars, callVars, histVars >>

(***************************************************************************)
(* Serialisation (models/course.py).  An instant is rendered by isoformat   *)
(* as its seconds, followed by "." and six digits of microseconds unless    *)
(* the microseconds are zero; the calendar fields are folded into the       *)
(* seconds.                                                                 *)
(***************************************************************************)
RECURSIVE NatValue(_)
NatValue(chars) ==
    IF chars = << >> THEN 0
    ELSE NatValue(SubSeq(chars, 1, Len(chars) - 1)) * 10
         + DigitValue(chars[Len(chars)])

AllDigits(chars) == chars # << >> /\ \A i \in DOMAIN chars : chars[i] \in Digits

\* The six digits of %06d.
MicroChars(us) ==
    LET d == NatChars(us) IN [i \in 1..(6 - Len(d)) |-> "0"] \o d

\* datetime.isoformat(), without the microseconds whatever they are.
IsoFormatSeconds(t) == NatChars(t.sec)

\* datetime.isoformat()
IsoFormat(t) ==
    NatChars(t.sec) \o (IF t.us = 0 THEN << >> ELSE << "." >> \o MicroChars(t.us))

\* datetime.fromisoformat(s): ok is FALSE where it raises ValueError.
FromIso(s) ==
    LET dots == {i \in DOMAIN s : s[i] = "."}
        whole == IF dots = {} THEN s ELSE SubSeq(s, 1, Min(dots) - 1)
        frac == IF dots = {} THEN << >> ELSE SubSeq(s, Min(dots) + 1, Len(s))
    IN  IF AllDigits(whole) /\ (dots = {} \/ (AllDigits(frac) /\ Len(frac) \in {3, 6}))
        THEN [ok |-> TRUE,
              val |-> [sec |-> NatValue(whole),
                       us |-> IF dots = {} THEN 0
                              ELSE IF Len(frac) = 6 THEN NatValue(frac)
                              ELSE NatValue(frac) * 1000]]
        ELSE [ok |-> FALSE, val |-> None]

\* Lesson.to_dict
LessonToDict(l) ==
    [title |-> l.title, description |-> l.description, content |-> l.content,
     resources |-> l.resources]

\* Lesson.from_dict
LessonFromDict(d) ==
    Lesson(DictGet(d, "title", ""), DictGet(d, "description", ""),
           DictGet(d, "content", ""), DictGet(d, "resources", << >>))

\* Module.to_dict
ModuleToDict(m) ==
    [title |-> m.title, description |-> m.description,
     lessons |-> [i \in 1..Len(m.lessons) |-> LessonToDict(m.lessons[i])],
     duration |-> m.duration]

\* Module.from_dict
ModuleFromDict(d) ==
    LET lessons_data == DictGet(d, "lessons", << >>)
    IN  ModuleWith(DictGet(d, "title", ""), DictGet(d, "description", ""),
                   [i \in 1..Len(lessons_data) |-> LessonFromDict(lessons_data[i])],
                   DictGet(d, "duration", "1 week"))

\* Course.to_dict
CourseToDict(c) ==
    [title |-> c.title,
     description |-> c.description,
     topic |-> c.topic,
     depth |-> c.depth,
     course_duration |-> c.course_duration,
     modules |-> [i \in 1..Len(c.modules) |-> ModuleToDict(c.modules[i])],
     references |-> c.references,
     created_at |-> IsoFormat(c.created_at),
     updated_at |-> IsoFormat(c.updated_at),
     validation_results |-> c.validation_results]

\* The instant from_dict leaves in a Course: the parsed entry of the dict, or
\* the instant of construction where the entry is missing or does not parse.
InstantOf(d, key, now) ==
    IF key \in DOMAIN d /\ FromIso(d[key]).ok THEN FromIso(d[key]).val ELSE now

\* Course.from_dict; now is datetime.now() in the constructor.  No dict of the
\* model holds None under "modules" or "references", which from_dict reads
\* as empty lists.
CourseFromDict(d, now) ==
    LET c == Course(DictGet(d, "title", DictGet(d, "course_title", "")),
                    DictGet(d, "description", ""),
                    DictGet(d, "topic", ""),
                    DictGet(d, "depth", "intermediate"),
                    DictGet(d, "course_duration", Str6Weeks),
                    DictGet(d, "references", << >>),
                    now)
        modules_data == DictGet(d, "modules", << >>)
    IN  [c EXCEPT
           !.created_at = InstantOf(d, "created_at", now),
           !.updated_at = InstantOf(d, "updated_at", now),
           !.validation_results = DictGet(d, "validation_results", << >>),
           !.modules = [i \in 1..Len(modules_data) |-> ModuleFromDict(modules_data[i])]]

\* course.to_dict() is taken.
to_dict ==
    /\ roundtrip' = [stage |-> "dict", data |-> CourseToDict(course)]
    /\ UNCHANGED << course, before, cop >>
    /\ UNCHANGED << cleanVars, uiVars, researchVars, serviceVars, coordVars, callVars, histVars >>

\* Course.from_dict rebuilds a Course from the dict taken.
from_dict(now) ==
    /\ roundtrip.stage = "dict"
    /\ roundtrip' = [stage |-> "rebuilt", data |-> roundtrip.data,
                     rebuilt |-> CourseFromDict(roundtrip.data, now)]
    /\ UNCHANGED << course, before, cop >>
    /\ UNCHANGED << cleanVars, uiVars, researchVars, serviceVars, coordVars, callVars, histVars >>

InitCourse ==
    /\ agents = << >>
    /\ workflow = << >>
    /\ cpc = "idle"
    /\ idx = 0
    /\ inputs = None
    /\ current_input = None
    /\ results = None
    /\ output = None
    /\ error = None
    /\ active = None
    /\ apc = "none"
    /\ arg = None
    /\ aret = None
    /\ aerr = None
    /\ loc = << >>
    /\ inflight = {}
    /\ invoked = << >>
    /\ returned = << >>
    /\ events = << >>
    /\ course \in {Course("Title", "Description", "T", "intermediate", d, << >>, now) :
                      d \in Durations, now \in Instants}
    /\ before = << >>
    /\ cop = "new"
    /\ roundtrip = [stage |-> "none"]
    /\ app = "none"
    /\ course_tasks = << >>
    /\ files = << >>
    /\ coros = << >>
    /\ next_id = 0
    /\ run = [on |-> FALSE, pc |-> "none"]
    /\ gather = [pc |-> "idle"]
    /\ CleanIdle
    /\ UiAbsent

NextCourse ==
    \/ \E d \in Durations, now \in Instants : NewCourse(d, now)
    \/ \E module \in GivenModules : add_module(module)
    \/ \E reference \in {"https://example.org/a"} : add_reference(reference)
    \/ adjust_modules_to_duration
    \/ to_dict
    \/ \E now \in Instants : from_dict(now)

SpecCourse == InitCourse /\ [][NextCourse]_vars

(***************************************************************************)
(* The task layer: api/main.py (app = "main") and the blueprints            *)
(* api/routes/courses.py (app = "courses") and api/routes/courses_restx.py  *)
(* (app = "courses_restx").  Each application keeps its own course_tasks;   *)
(* files is the output directory, <task id>_output.json under the task id.  *)
(* The timestamps of the task records are left out.                         *)
(***************************************************************************)
Str4Weeks == Weeks(4)

StrUnknownDuration ==
    << "U", "n", "k", "n", "o", "w", "n", " ", "D", "u", "r", "a", "t", "i",
       "o", "n" >>

\* str(uuid.uuid4()), the n-th identifier drawn.
Uuid(n) == "u" \o ToString(n)

\* f"{task_id}_refine_{str(uuid.uuid4())[:8]}"
RefinementId(task_id, n) == task_id \o "_refine_" \o Uuid(n)

\* The bodies of POST /api/courses/: without topic, empty, and with topic.
GenerationRequests ==
    { [topic |-> "T"],
      [topic |-> "T", depth |-> "advanced", course_duration |-> Str2Weeks],
      [depth |-> "advanced"],
      << >> }

\* The bodies of POST /api/courses/<task_id>/refine.
RefinementRequests ==
    { [refinement_type |-> "expand", instructions |-> "more examples"],
      [refinement_type |-> "expand"] }

\* The "status" of the body of POST /api/courses/<task_id>/update-status;
\* None where the body has none.
StatusRequests ==
    { "queued", "processing", "completed", "failed", "cancelled", None }

\* The task ids of the requests: those of the records and one of no record.
TaskIds == DOMAIN course_tasks \cup {"unknown"}

\* "if not data or 'topic' not in data"
LacksTopic(data) == data = << >> \/ "topic" \notin DOMAIN data

\* A refinement request without its instructions.
LacksInstructions(data) == "instructions" \notin DOMAIN data

\* The record of a generation task.  courses.py stores no course_duration.
GenerationRecord(task_id, data) ==
    LET rec == [id |-> task_id,
                topic |-> data.topic,
                depth |-> DictGet(data, "depth", "beginner"),
                target_audience |-> DictGet(data, "target_audience", "General audience"),
                status |-> "queued"]
    IN  IF app = "courses" THEN rec
        ELSE DictSet(rec, "course_duration", DictGet(data, "course_duration", Str4Weeks))

\* The record of a refinement task.  courses_restx.py copies the topic.
RefinementRecord(refinement_id, task_id, data) ==
    LET rec == [id |-> refinement_id,
                original_task_id |-> task_id,
                refinement_type |-> DictGet(data, "refinement_type", "general"),
                instructions |-> DictGet(data, "instructions", ""),
                status |-> "queued"]
    IN  IF app = "courses_restx"
        THEN DictSet(rec, "topic", DictGet(course_tasks[task_id], "topic", ""))
        ELSE rec

\* update_course_status accepting any status.
ValidStatusAny(new_status) == TRUE

\* update_course_status, line 274: the check of the new status.
ValidStatus(new_status) ==
    new_status \in {"queued", "processing", "completed", "failed"}

\* main.py, create_dummy_output: the document written for a task.
DummyOutput(task_info) ==
    [title |-> << "Comprehensive Course on ", DictGet(task_info, "topic", None) >>,
     description |-> << "A ", DictGet(task_info, "depth", "beginner"),
                        " level course designed for ",
                        DictGet(task_info, "target_audience", "general audience") >>,
     topic |-> DictGet(task_info, "topic", ""),
     depth |-> DictGet(task_info, "depth", "beginner"),
     target_audience |-> DictGet(task_info, "target_audience", "General audience"),
     course_duration |-> DictGet(task_info, "course_duration", Str4Weeks),
     modules |-> << [title |-> "Introduction to the Subject",
                     description |-> "Basic concepts and terminology",
                     duration |-> "1 week",
                     lessons |-> << [title |-> "Overview and Fundamentals",
                                     content |-> "Lorem ipsum",
                                     exercises |-> << [question |-> "q", answer |-> "a"] >>,
                                     resources |-> << [title |-> "Introduction Guide",
                                                       url |-> "https://example.com/guide"] >>] >>] >>,
     validation_results |-> [content_score |-> "0.95", structure_score |-> "0.92",
                             refinements |-> << >>]]

\* api/main.py, CourseList.post.  production tells whether FLASK_ENV is
\* "production".  The coroutines are handed to an event loop that was just
\* created and that nothing runs: they are recorded, and no step of theirs is
\* ever taken.
CourseListPost(data, production) ==
    /\ app = "main"
    /\ IF LacksTopic(data)
       THEN UNCHANGED << course_tasks, coros, next_id >>
       ELSE /\ next_id < MaxTasks
            /\ course_tasks' = DictSet(course_tasks, Uuid(next_id),
                                       GenerationRecord(Uuid(next_id), data))
            /\ coros' = coros
                 \o << [task_id |-> Uuid(next_id), kind |-> "generation",
                        by |-> "create_task"] >>
                 \o (IF production THEN << >>
                     ELSE << [task_id |-> Uuid(next_id), kind |-> "generation",
                              by |-> "run_coroutine_threadsafe"] >>)
            /\ next_id' = next_id + 1
    /\ UNCHANGED << app, files, run >>
    /\ UNCHANGED << cleanVars, uiVars, courseVars, researchVars, coordVars, callVars, histVars >>

\* api/main.py, CourseRefine.post.  get_event_loop answers with a loop that
\* nothing runs (has_loop) or raises in a thread that has none; the exception
\* is caught and the answer is the same.
CourseRefinePost(task_id, data, has_loop) ==
    /\ app = "main"
    /\ IF task_id \notin DOMAIN course_tasks
       THEN UNCHANGED << course_tasks, coros, next_id >>
       ELSE IF course_tasks[task_id].status # "completed"
       THEN UNCHANGED << course_tasks, coros, next_id >>
       ELSE /\ next_id < MaxTasks
            /\ course_tasks' =
                 DictSet(course_tasks, RefinementId(task_id, next_id),
                         RefinementRecord(RefinementId(task_id, next_id), task_id, data))
            /\ coros' = IF has_loop
                        THEN Append(coros, [task_id |-> RefinementId(task_id, next_id),
                                            kind |-> "refinement", by |-> "create_task"])
                        ELSE coros
            /\ next_id' = next_id + 1
    /\ UNCHANGED << app, files, run >>
    /\ UNCHANGED << cleanVars, uiVars, courseVars, researchVars, coordVars, callVars, histVars >>

\* api/main.py, update_course_status.  The status is set first (line 277);
\* create_dummy_output then writes the document, or fails to (written is
\* FALSE), logs the exception and returns False (lines 363-365), which the
\* view does not look at.
update_course_status(task_id, new_status) ==
    /\ app = "main"
    /\ IF task_id \notin DOMAIN course_tasks
       THEN UNCHANGED << course_tasks, files >>
       ELSE IF ~ValidStatus(new_status)
       THEN UNCHANGED << course_tasks, files >>
       ELSE /\ course_tasks' = [course_tasks EXCEPT ![task_id].status = new_status]
            /\ \E written \in BOOLEAN :
                  files' = IF new_status = "completed" /\ task_id \notin DOMAIN files
                              /\ written
                           THEN DictSet(files, task_id, DummyOutput(course_tasks'[task_id]))
                           ELSE files
    /\ UNCHANGED << app, coros, next_id, run >>
    /\ UNCHANGED << cleanVars, uiVars, courseVars, researchVars, coordVars, callVars, histVars >>

\* routes: create_course (courses.py) and CourseCollection.post
\* (courses_restx.py), up to asyncio.run: the record is stored and the
\* generation is run to its end, with the body of the request as its input,
\* before the request is answered.  The requests are answered one at a time.
create_course(data) ==
    /\ app \in {"courses", "courses_restx"}
    /\ ~run.on
    /\ IF LacksTopic(data)
       THEN UNCHANGED << course_tasks, next_id, run >>
       ELSE /\ next_id < MaxTasks
            /\ course_tasks' = DictSet(course_tasks, Uuid(next_id),
                                       GenerationRecord(Uuid(next_id), data))
            /\ next_id' = next_id + 1
            /\ run' = [on |-> TRUE, pc |-> "queued", task_id |-> Uuid(next_id),
                       input_data |-> data]
    /\ UNCHANGED << app, files, coros >>
    /\ UNCHANGED << cleanVars, uiVars, courseVars, researchVars, coordVars, callVars, histVars >>

\* routes: process_course_generation, up to the await of coordinator.process:
\* the status, a new coordinator with the four steps registered and the
\* workflow set, and the locals of process.
GenerationBegin ==
    /\ run.on
    /\ run.pc = "queued"
    /\ course_tasks' = [course_tasks EXCEPT ![run.task_id].status = "processing"]
    /\ run' = [run EXCEPT !.pc = "processing"]
    /\ agents' = [n \in Range(StandardWorkflow) |-> n]
    /\ workflow' = StandardWorkflow
    /\ inputs' = run.input_data
    /\ current_input' = run.input_data
    /\ results' = [n \in {"initial_input"} |-> run.input_data]
    /\ idx' = 1
    /\ cpc' = "loop"
    /\ output' = None
    /\ error' = None
    /\ active' = None
    /\ apc' = "none"
    /\ arg' = None
    /\ aret' = None
    /\ aerr' = None
    /\ loc' = << >>
    /\ inflight' = {}
    /\ invoked' = << >>
    /\ returned' = << >>
    /\ events' = << >>
    /\ UNCHANGED << app, files, coros, next_id >>
    /\ UNCHANGED << cleanVars, uiVars, courseVars, researchVars >>

\* routes: process_course_generation after coordinator.process returned: the
\* Course built from content_structure, its topic, depth and course_duration
\* taken from the request, the resize, and the document it is written as.
FinalCourse(result, input_data, now) ==
    LET final_course ==
            CourseFromDict(DictGet(DictGet(result, "course", << >>),
                                   "content_structure", << >>), now)
    IN  Adjusted([final_course EXCEPT
                    !.topic = DictGet(input_data, "topic", ""),
                    !.depth = DictGet(input_data, "depth", "intermediate"),
                    !.course_duration =
                        DictGet(input_data, "course_duration", StrUnknownDuration)])

\* routes: process_course_generation, the rest of the try block, and the answer
\* of the request.
GenerationComplete(now) ==
    /\ run.on
    /\ run.pc = "processing"
    /\ cpc = "returned"
    /\ files' = DictSet(files, run.task_id,
                        CourseToDict(FinalCourse(output, run.input_data, now)))
    /\ course_tasks' = [course_tasks EXCEPT ![run.task_id].status = "completed"]
    /\ run' = [run EXCEPT !.on = FALSE, !.pc = "done"]
    /\ cpc' = "idle"
    /\ UNCHANGED << app, coros, next_id >>
    /\ UNCHANGED << agents, workflow, idx, inputs, current_input, results, output, error >>
    /\ UNCHANGED << cleanVars, uiVars, courseVars, researchVars, callVars, histVars >>

\* GenerationFail that records the error and leaves the task completed.
GenerationFailCompleted ==
    /\ run.on
    /\ run.pc = "processing"
    /\ cpc = "raised"
    /\ course_tasks' = [course_tasks EXCEPT
                          ![run.task_id] = DictSet(DictSet(@, "status", "completed"),
                                                   "error", error)]
    /\ run' = [run EXCEPT !.on = FALSE, !.pc = "done"]
    /\ cpc' = "idle"
    /\ UNCHANGED << app, files, coros, next_id >>
    /\ UNCHANGED << agents, workflow, idx, inputs, current_input, results, output, error >>
    /\ UNCHANGED << cleanVars, uiVars, courseVars, researchVars, callVars, histVars >>

\* routes: process_course_generation, the except block: coordinator.process
\* raised.  asyncio.run returns and the request is answered as accepted.
GenerationFail ==
    /\ run.on
    /\ run.pc = "processing"
    /\ cpc = "raised"
    /\ course_tasks' = [course_tasks EXCEPT
                          ![run.task_id] = DictSet(DictSet(@, "status", "failed"),
                                                   "error", error)]
    /\ run' = [run EXCEPT !.on = FALSE, !.pc = "done"]
    /\ cpc' = "idle"
    /\ UNCHANGED << app, files, coros, next_id >>
    /\ UNCHANGED << agents, workflow, idx, inputs, current_input, results, output, error >>
    /\ UNCHANGED << cleanVars, uiVars, courseVars, researchVars, callVars, histVars >>

\* routes: refine_course (courses.py) and CourseRefine.post (courses_restx.py).
\* The record is stored; asyncio.create_task then raises RuntimeError, since
\* no event loop runs in the thread of a view, and the request is answered
\* with the error.  The coroutine is never started.
refine_course(task_id, data) ==
    /\ app \in {"courses", "courses_restx"}
    /\ ~run.on
    /\ IF task_id \notin DOMAIN course_tasks
       THEN UNCHANGED << course_tasks, next_id >>
       ELSE IF course_tasks[task_id].status # "completed"
       THEN UNCHANGED << course_tasks, next_id >>
       ELSE /\ next_id < MaxTasks
            /\ course_tasks' =
                 DictSet(course_tasks, RefinementId(task_id, next_id),
                         RefinementRecord(RefinementId(task_id, next_id), task_id, data))
            /\ next_id' = next_id + 1
    /\ UNCHANGED << app, files, coros, run >>
    /\ UNCHANGED << cleanVars, uiVars, courseVars, researchVars, coordVars, callVars, histVars >>

\* The structure texts, research results and instants of the runs of the
\* task layer.
ServiceStructureTexts == { TextFenced, TextGarbage }

ServiceInstants == { now \in Instants : now.us = 0 }

ServiceLessonResponses == { text \in LessonResponses : text[1] = "CONTENT:" }

ServiceGatherResults ==
    { g \in GatherResults : g.academic_sources = << >> }

InitService(apps) ==
    /\ app \in apps
    /\ agents = << >>
    /\ workflow = << >>
    /\ cpc = "idle"
    /\ idx = 0
    /\ inputs = None
    /\ current_input = None
    /\ results = None
    /\ output = None
    /\ error = None
    /\ active = None
    /\ apc = "none"
    /\ arg = None
    /\ aret = None
    /\ aerr = None
    /\ loc = << >>
    /\ inflight = {}
    /\ invoked = << >>
    /\ returned = << >>
    /\ events = << >>
    /\ course = [modules |-> << >>, course_duration |-> Str6Weeks]
    /\ before = << >>
    /\ cop = "new"
    /\ roundtrip = [stage |-> "none"]
    /\ course_tasks = << >>
    /\ files = << >>
    /\ coros = << >>
    /\ next_id = 0
    /\ run = [on |-> FALSE, pc |-> "none"]

\* The steps of a generation that is running: the executor and its four steps.
\* The four names of the workflow are registered, so the executor never meets
\* an unregistered one.
GenerationStep ==
    \/ GenerationBegin
    \/ ProcessDelegate
    \/ ProcessResume
    \/ ProcessPropagate
    \/ ProcessReturn
    \/ ResearchStart
    \/ \E g \in ServiceGatherResults : ResearchGathered(g)
    \/ ResearchGatherRaised
    \/ \E text \in ResearchTexts : ResearchLlmReturned(text)
    \/ ResearchLlmRaised
    \/ StructureStart
    \/ \E text \in ServiceStructureTexts : StructureLlmReturned(text)
    \/ StructureLlmRaised
    \/ ContentStart
    \/ \E text \in ServiceLessonResponses : ContentLessonReturned(text)
    \/ ContentLessonRaised
    \/ \E text \in ReferenceResponses : ContentReferencesReturned(text)
    \/ ContentReferencesRaised
    \/ ValidateStart
    \/ \E text \in FeedbackTexts : ValidateCourseReturned(text)
    \/ \E text \in FeedbackTexts : ValidateLessonReturned(text)
    \/ \E text \in FeedbackTexts : ValidateConsistencyReturned(text)
    \/ ValidateLlmRaised
    \/ \E now \in ServiceInstants : GenerationComplete(now)
    \/ GenerationFail

(***************************************************************************)
(* api/main.py as it is served.                                            *)
(***************************************************************************)
InitMain ==
    /\ InitService({"main"})
    /\ gather = [pc |-> "idle"]
    /\ CleanIdle
    /\ UiAbsent

NextMain ==
    \/ \E data \in GenerationRequests, production \in BOOLEAN :
          CourseListPost(data, production)
    \/ \E task_id \in TaskIds, data \in RefinementRequests, has_loop \in BOOLEAN :
          CourseRefinePost(task_id, data, has_loop)
    \/ \E task_id \in TaskIds, new_status \in StatusRequests :
          update_course_status(task_id, new_status)

SpecMain == InitMain /\ [][NextMain]_vars

(***************************************************************************)
(* The blueprints of api/routes as they are served.                        *)
(***************************************************************************)
InitRoutes ==
    /\ InitService({"courses", "courses_restx"})
    /\ gather = [pc |-> "idle"]
    /\ CleanIdle
    /\ UiAbsent

NextRoutes ==
    \/ \E data \in GenerationRequests : create_course(data)
    \/ \E task_id \in TaskIds, data \in RefinementRequests : refine_course(task_id, data)
    \/ GenerationStep

SpecRoutes == InitRoutes /\ [][NextRoutes]_vars

(***************************************************************************)
(* Progress.  asyncio.run drives a generation it was given to its end, and *)
(* a call of the model or of a provider returns or raises: a step of a     *)
(* running generation that stays possible is taken.  Nothing is owed to a  *)
(* coroutine handed to an event loop that is not run, nor to a client.     *)
(***************************************************************************)
Progress == WF_vars(GenerationStep)

FairSpecMain == SpecMain /\ Progress

(***************************************************************************)
(* services/research_service.py: gather_research and its two providers.    *)
(* gather.key tells whether config.TAVILY_API_KEY is set; calls counts the  *)
(* invocations of search_tavily and search_arxiv, requests the HTTP         *)
(* requests sent, within one call of gather_research.                       *)
(***************************************************************************)
NoFailure == [failed |-> FALSE, kind |-> "none", text |-> ""]

Failure(kind, text) == [failed |-> TRUE, kind |-> kind, text |-> text]

\* The state of the service between two calls of gather_research.
IdleGather(key) ==
    [pc |-> "idle", key |-> key, topic |-> "", depth |-> "",
     calls |-> [tavily |-> 0, arxiv |-> 0],
     requests |-> [tavily |-> 0, arxiv |-> 0],
     web_results |-> << >>, academic_results |-> << >>,
     web_failure |-> NoFailure, academic_failure |-> NoFailure,
     outcome |-> "none", result |-> << >>]

\* What the web provider answers: a status and, with 200, the JSON of the
\* body (NoParse where the body is no JSON), else the text of the body.
TavilyResponses ==
    << [status |-> 200,
       json |-> Parsed(JDict([results |-> JList(<<
                    JDict([title |-> JStr("W1"), content |-> JStr("w1"),
                           url |-> JStr("uw1")]),
                    JDict([title |-> JStr("W2")]) >>)]), 0)],
      [status |-> 200, json |-> Parsed(JDict([results |-> JList(<< >>)]), 0)],
      [status |-> 200, json |-> Parsed(JDict([answer |-> JStr("a")]), 0)],
      [status |-> 200, json |-> Parsed(JDict([results |-> JNone]), 0)],
      [status |-> 200, json |-> Parsed(JDict([results |-> JList(<< JStr("W1") >>)]), 0)],
      [status |-> 200, json |-> Parsed(JList(<< >>), 0)],
      [status |-> 200, json |-> NoParse],
      [status |-> 401, text |-> "Unauthorized"],
      [status |-> 500, text |-> ""] >>

\* What the academic provider answers: a status and, with 200, the Atom feed
\* of the body (ok = FALSE where the body is no XML), else the text of the
\* body.  An entry has or lacks its title, summary and pdf link; an empty text
\* stands for an element without text.
ArxivResponses ==
    << [status |-> 200,
       feed |-> [ok |-> TRUE, entries |-> <<
                    [title |-> [found |-> TRUE, text |-> << " ", "A", "1", "\n" >>],
                     summary |-> [found |-> TRUE, text |-> << "a", "1", " " >>],
                     link |-> [found |-> TRUE, href |-> "ua1"]],
                    [title |-> [found |-> TRUE, text |-> << "A", "2" >>],
                     summary |-> [found |-> FALSE, text |-> << >>],
                     link |-> [found |-> FALSE, href |-> ""]],
                    [title |-> [found |-> TRUE, text |-> << >>],
                     summary |-> [found |-> TRUE, text |-> << "a", "3" >>],
                     link |-> [found |-> FALSE, href |-> ""]] >>]],
      [status |-> 200, feed |-> [ok |-> TRUE, entries |-> << >>]],
      [status |-> 200, feed |-> [ok |-> FALSE, entries |-> << >>]],
      [status |-> 503, text |-> "Service Unavailable"] >>

\* The exceptions of a request that gets no answer.
RequestErrors == { "ClientConnectorError", "TimeoutError" }

\* A handler that lets through what is no error of the connection.
CaughtConnectionErrors(e) == e \in RequestErrors

\* "except Exception as e", lines 44 and 80: every exception is caught.
Caught(e) == TRUE

\* search_tavily, lines 41-43: the results of a 200 answer; ok = FALSE with
\* the exception raised on the way.
TavilyResults(json) ==
    IF ~json.ok THEN [ok |-> FALSE, e |-> "ContentTypeError"]
    ELSE IF json.val.t # "dict" THEN [ok |-> FALSE, e |-> "AttributeError"]
    ELSE LET found == Items(DictGet(json.val.v, "results", JList(<< >>)))
         IN  IF ~found.ok THEN [ok |-> FALSE, e |-> "TypeError"]
             ELSE IF \E i \in DOMAIN found.items : found.items[i].t # "dict"
             THEN [ok |-> FALSE, e |-> "AttributeError"]
             ELSE [ok |-> TRUE,
                   val |-> [i \in DOMAIN found.items |->
                              [title |-> DictGet(found.items[i].v, "title", JStr("")),
                               content |-> DictGet(found.items[i].v, "content", JStr("")),
                               url |-> DictGet(found.items[i].v, "url", JStr(""))]]]

\* search_arxiv, lines 66-78: the entries that have a title and a summary.
RECURSIVE ArxivResults(_)
ArxivResults(entries) ==
    IF entries = << >> THEN << >>
    ELSE LET entry == Head(entries)
         IN  (IF entry.title.found /\ entry.summary.found
              THEN << [title |-> Strip(entry.title.text),
                       content |-> Strip(entry.summary.text),
                       url |-> IF entry.link.found THEN entry.link.href ELSE ""] >>
              ELSE << >>)
             \o ArxivResults(Tail(entries))

\* gather_research, lines 83-90: the call begins.
gather_research(topic, depth) ==
    /\ gather.pc \in {"idle", "done"}
    /\ gather' = [IdleGather(gather.key) EXCEPT
                    !.pc = "search_tavily", !.topic = topic, !.depth = depth,
                    !.outcome = "pending"]
    /\ UNCHANGED << cleanVars, uiVars, courseVars, serviceVars, coordVars, callVars, histVars >>

\* The web provider ended with results.
WebDone(sources, failure) ==
    gather' = [gather EXCEPT !.pc = "search_arxiv", !.web_results = sources,
                             !.web_failure = failure]

\* The academic provider ended with results.
AcademicDone(sources, failure) ==
    gather' = [gather EXCEPT !.pc = "return", !.academic_results = sources,
                             !.academic_failure = failure]

\* An exception left a provider: gather_research has no handler of its own.
Propagate(e) ==
    gather' = [gather EXCEPT !.pc = "done", !.outcome = "raised", !.result = e]

\* search_tavily, lines 15-36: without key the placeholder is returned and no
\* request is sent; with it the request is sent.
search_tavily ==
    /\ gather.pc = "search_tavily"
    /\ IF ~gather.key
       THEN LET text == "Please set TAVILY_API_KEY in your environment variables."
            IN  gather' = [gather EXCEPT
                    !.pc = "search_arxiv",
                    !.calls.tavily = @ + 1,
                    !.web_results = << [title |-> "Tavily API key not configured",
                                        content |-> text] >>,
                    !.web_failure = Failure("no key", text)]
       ELSE gather' = [gather EXCEPT !.pc = "tavily_wait",
                                     !.calls.tavily = @ + 1,
                                     !.requests.tavily = @ + 1]
    /\ UNCHANGED << cleanVars, uiVars, courseVars, serviceVars, coordVars, callVars, histVars >>

\* search_tavily, lines 44-45: an exception in the try block.
TavilyFailed(e) ==
    IF Caught(e)
    THEN WebDone(<< [title |-> "Error", content |-> "Failed to search Tavily: " \o e] >>,
                 Failure("exception", "Failed to search Tavily: " \o e))
    ELSE Propagate(e)

\* search_tavily, lines 37-43: the provider answered.
TavilyResponded(resp) ==
    /\ gather.pc = "tavily_wait"
    /\ IF resp.status # 200
       THEN WebDone(<< [title |-> "Error: " \o ToString(resp.status),
                        content |-> resp.text] >>,
                    Failure("status", resp.text))
       ELSE IF TavilyResults(resp.json).ok
       THEN WebDone(TavilyResults(resp.json).val, NoFailure)
       ELSE TavilyFailed(TavilyResults(resp.json).e)
    /\ UNCHANGED << cleanVars, uiVars, courseVars, serviceVars, coordVars, callVars, histVars >>

\* search_tavily, lines 31-36: the request raised.
TavilyRaised(e) ==
    /\ gather.pc = "tavily_wait"
    /\ TavilyFailed(e)
    /\ UNCHANGED << cleanVars, uiVars, courseVars, serviceVars, coordVars, callVars, histVars >>

\* search_arxiv, lines 47-55: the request is sent.
search_arxiv ==
    /\ gather.pc = "search_arxiv"
    /\ gather' = [gather EXCEPT !.pc = "arxiv_wait",
                                !.calls.arxiv = @ + 1,
                                !.requests.arxiv = @ + 1]
    /\ UNCHANGED << cleanVars, uiVars, courseVars, serviceVars, coordVars, callVars, histVars >>

\* search_arxiv, lines 80-81: an exception in the try block.
ArxivFailed(e) ==
    IF Caught(e)
    THEN AcademicDone(<< [title |-> "Error", content |-> "Failed to search arXiv: " \o e] >>,
                      Failure("exception", "Failed to search arXiv: " \o e))
    ELSE Propagate(e)

\* search_arxiv, lines 55-79: the provider answered.
ArxivResponded(resp) ==
    /\ gather.pc = "arxiv_wait"
    /\ IF resp.status # 200
       THEN AcademicDone(<< [title |-> "Error: " \o ToString(resp.status),
                             content |-> resp.text] >>,
                         Failure("status", resp.text))
       ELSE IF resp.feed.ok
       THEN AcademicDone(ArxivResults(resp.feed.entries), NoFailure)
       ELSE ArxivFailed("ParseError")
    /\ UNCHANGED << cleanVars, uiVars, courseVars, serviceVars, coordVars, callVars, histVars >>

\* search_arxiv, lines 54-55: the request raised.
ArxivRaised(e) ==
    /\ gather.pc = "arxiv_wait"
    /\ ArxivFailed(e)
    /\ UNCHANGED << cleanVars, uiVars, courseVars, serviceVars, coordVars, callVars, histVars >>

\* gather_research, lines 93-99: the dict returned.
GatherReturn ==
    /\ gather.pc = "return"
    /\ gather' = [gather EXCEPT
                    !.pc = "done",
                    !.outcome = "returned",
                    !.result = [topic |-> gather.topic,
                                depth |-> gather.depth,
                                web_sources |-> gather.web_results,
                                academic_sources |-> gather.academic_results]]
    /\ UNCHANGED << cleanVars, uiVars, courseVars, serviceVars, coordVars, callVars, histVars >>

InitResearch ==
    /\ InitService({"none"})
    /\ \E key \in BOOLEAN : gather = IdleGather(key)
    /\ CleanIdle
    /\ UiAbsent

NextResearch ==
    \/ \E topic \in {"T"}, depth \in {"beginner", "intermediate", "advanced"} :
          gather_research(topic, depth)
    \/ search_tavily
    \/ \E i \in DOMAIN TavilyResponses : TavilyResponded(TavilyResponses[i])
    \/ \E e \in RequestErrors : TavilyRaised(e)
    \/ search_arxiv
    \/ \E i \in DOMAIN ArxivResponses : ArxivResponded(ArxivResponses[i])
    \/ \E e \in RequestErrors : ArxivRaised(e)
    \/ GatherReturn

SpecResearch == InitResearch /\ [][NextResearch]_vars

(***************************************************************************)
(* utils/json_cleaner.py: clean_json_string statement by statement, on     *)
(* bounded inputs.                                                         *)
(***************************************************************************)
\* The characters the short inputs are made of.
CleanAlphabet == {"{", "}", "'", "\"", "\\", "1", Backquote}

\* Every text of at most MaxText characters of CleanAlphabet.
ShortTexts == UNION {[1..n -> CleanAlphabet] : n \in 0..MaxText}

\* A fenced object in single quotes.
TextFencedSingle ==
    << Backquote, Backquote, Backquote, "j", "s", "o", "n", "\n", "{", "'",
       "a", "'", ":", " ", "1", "}", "\n", Backquote, Backquote, Backquote >>

\* An object between prose.
TextBetweenNoise ==
    << "p", "r", "e", "f", "i", "x", " ", "n", "o", "i", "s", "e", " ", "{",
       "\"", "a", "\"", ":", " ", "\"", "b", "\"", "}", " ", "t", "r", "a",
       "i", "l", "i", "n", "g", " ", "n", "o", "i", "s", "e" >>

\* No brace and a quote that is not closed.
TextBadQuote == << "i", "t", "'", "s", " ", "b", "r", "o", "k", "e", "n" >>

\* A run of digits one longer than int conversion accepts.
ManyDigits == [i \in 1..(MaxStrDigits + 1) |-> "1"]

\* No brace, a quote that is not closed, and the long run of digits before it.
TextDigitsBadQuote == << "[" >> \o ManyDigits \o << ",", " ", "'", "a" >>

\* The long run of digits and an object after it.
TextDigitsThenObject == << "[" >> \o ManyDigits \o << ",", " ", "{", "}" >>

NamedTexts ==
    {TextFencedSingle, TextBetweenNoise, TextBadQuote, ManyDigits,
     TextDigitsBadQuote, TextDigitsThenObject, TextFenced, TextNoisy,
     TextGarbage, TextTruncated}

CleanInputs == ShortTexts \cup NamedTexts

\* The call has returned value val, found at the given stage.
CleanReturned(val, stage) ==
    clean' = [clean EXCEPT !.pc = "returned", !.val = val, !.stage = stage]

\* Exception exc leaves the call at the given stage.
CleanRaised(exc, stage) ==
    clean' = [clean EXCEPT !.pc = "raised", !.exc = exc, !.stage = stage]

\* TryQuotes that attempts no parse of the text with the quotes replaced.
TryQuotesSkipped ==
    /\ clean.pc = "try_quotes"
    /\ clean' = [clean EXCEPT !.pc = "try_span"]
    /\ UNCHANGED << uiVars, courseVars, researchVars, serviceVars, coordVars,
                    callVars, histVars >>

\* Lines 9-14: the fence markers and the surrounding whitespace are removed.
StripMarkers ==
    /\ clean.pc = "called"
    /\ clean' = [clean EXCEPT !.pc = "try_direct",
                              !.json_str = StripFences(clean.json_str)]
    /\ UNCHANGED << uiVars, courseVars, researchVars, serviceVars, coordVars,
                    callVars, histVars >>

\* Lines 17-20: the text as it stands.
TryDirect ==
    /\ clean.pc = "try_direct"
    /\ LET parsed == JsonLoads(clean.json_str)
       IN  IF parsed.ok THEN CleanReturned(parsed.val, 1)
           ELSE IF parsed.exc = "JSONDecodeError"
           THEN clean' = [clean EXCEPT !.pc = "try_quotes"]
           ELSE CleanRaised(parsed.exc, 1)
    /\ UNCHANGED << uiVars, courseVars, researchVars, serviceVars, coordVars,
                    callVars, histVars >>

\* Lines 23-38: the text with the single quotes replaced.
TryQuotes ==
    /\ clean.pc = "try_quotes"
    /\ LET parsed == JsonLoads(FixQuotes(clean.json_str))
       IN  IF parsed.ok THEN CleanReturned(parsed.val, 2)
           ELSE IF parsed.exc = "JSONDecodeError"
           THEN clean' = [clean EXCEPT !.pc = "try_span"]
           ELSE CleanRaised(parsed.exc, 2)
    /\ UNCHANGED << uiVars, courseVars, researchVars, serviceVars, coordVars,
                    callVars, histVars >>

\* Lines 41-47: the span of json_str from the first "{" to the last "}".
TrySpan ==
    /\ clean.pc = "try_span"
    /\ LET match == BraceSpan(clean.json_str)
           parsed == JsonLoads(match.text)
       IN  IF ~match.found THEN clean' = [clean EXCEPT !.pc = "give_up"]
           ELSE IF parsed.ok THEN CleanReturned(parsed.val, 3)
           ELSE IF parsed.exc = "JSONDecodeError"
           THEN clean' = [clean EXCEPT !.pc = "give_up"]
           ELSE CleanRaised(parsed.exc, 3)
    /\ UNCHANGED << uiVars, courseVars, researchVars, serviceVars, coordVars,
                    callVars, histVars >>

\* Line 50: every attempt failed.
GiveUp ==
    /\ clean.pc = "give_up"
    /\ CleanRaised("JSONDecodeError", 4)
    /\ UNCHANGED << uiVars, courseVars, researchVars, serviceVars, coordVars,
                    callVars, histVars >>

\* A call of clean_json_string on one of the inputs.
InitClean ==
    /\ InitService({"none"})
    /\ gather = [pc |-> "idle"]
    /\ UiAbsent
    /\ \E text \in CleanInputs :
          clean = [pc |-> "called", input |-> text, json_str |-> text,
                   val |-> None, exc |-> "none", stage |-> 0]

NextClean ==
    \/ StripMarkers
    \/ TryDirect
    \/ TryQuotes
    \/ TrySpan
    \/ GiveUp

SpecClean == InitClean /\ [][NextClean]_vars

(***************************************************************************)
(* app.py: the web interface, its file storage (course_storage) and the    *)
(* threads of generate_course_async.  The variables of this section are    *)
(* storage, threads, response and next_id.                                 *)
(***************************************************************************)
\* max_retries of generate_course_async.
max_retries == 3

\* "for i in range(5)" of the local generation.
LocalSteps == 5

\* "if i == 2": the step of the local generation that records progress.
ProgressStep == 2

\* The bodies of POST /api/courses/ of app.py: with and without a topic
\* (create_course_api does not validate).
AppRequests == { [topic |-> "T"], [depth |-> "advanced"] }

\* The topic field of the creation form: filled and empty.
FormTopics == { "T", "" }

\* The instructions field of the refinement form: filled and empty.
FormInstructions == { "more examples", "" }

\* What one requests.post of generate_course_async comes to: a response with
\* status 201, a response with another status, a RequestException.
PostOutcomes == { "201", "other", "RequestException" }

\* The task ids of the requests to app.py: those stored and one not stored.
StoredIds == DOMAIN storage \cup {"unknown"}

\* The record create_course_api and create_course_submit save.
StoredCourse(task_id, topic, depth, target_audience, course_duration) ==
    [topic |-> topic, depth |-> depth, target_audience |-> target_audience,
     course_duration |-> course_duration, status |-> "processing",
     created_at |-> "now", task_id |-> task_id]

\* The course_data the two creation handlers hand to the thread.
ThreadCourseData(task_id, topic, depth, target_audience, course_duration) ==
    [task_id |-> task_id, topic |-> topic, depth |-> depth,
     target_audience |-> target_audience, course_duration |-> course_duration]

\* A thread of generate_course_async that was started and has not run yet.
\* calls, got201, sleeps and local are history: the requests.post made,
\* whether one of them answered 201, the retry sleeps begun, and whether
\* the local generation ran.
NewThread(course_data) ==
    [pc |-> "start", course_data |-> course_data, attempt |-> 0,
     api_available |-> FALSE, i |-> 0,
     calls |-> 0, got201 |-> FALSE, sleeps |-> 0, local |-> FALSE]

\* The answer of a handler: its name, the task id asked for, the status
\* code, the id of the record it created (None if none).  seen is history:
\* the status of the stored course when the request came, "absent" if the
\* task id was not stored.
Answer(op, task_id, code, new_id) ==
    [op |-> op, task_id |-> task_id, code |-> code, new_id |-> new_id,
     seen |-> IF task_id \in DOMAIN storage
              THEN DictGet(storage[task_id], "status", None)
              ELSE "absent"]

\* app.py touches nothing but its storage, its threads and its answers.
AppOnly ==
    UNCHANGED << coordVars, callVars, histVars, courseVars, researchVars,
                 cleanVars, app, course_tasks, files, coros, run >>

\* save_course(course_data, task_id)
save_course(course_data, task_id) ==
    storage' = DictSet(storage, task_id, DictSet(course_data, "task_id", task_id))

\* The creation common to create_course_api and create_course_submit: save
\* with a new id, start the thread.
CreateCourse(op, topic, depth, target_audience, course_duration, code) ==
    LET task_id == Uuid(next_id) IN
    /\ next_id < MaxTasks
    /\ save_course(StoredCourse(task_id, topic, depth, target_audience,
                             course_duration), task_id)
    /\ threads' = DictSet(threads, task_id,
                      NewThread(ThreadCourseData(task_id, topic, depth,
                                    target_audience, course_duration)))
    /\ response' = Answer(op, None, code, task_id)
    /\ next_id' = next_id + 1
    /\ AppOnly

\* POST /api/courses/ of app.py.
create_course_api(body) ==
    CreateCourse("create_course_api",
                 DictGet(body, "topic", None),
                 DictGet(body, "depth", "beginner"),
                 DictGet(body, "target_audience", "General audience"),
                 DictGet(body, "course_duration", Str4Weeks), 201)

\* POST /courses/create: the form; a topic is required.
create_course_submit(topic) ==
    IF topic = ""
    THEN /\ response' = Answer("create_course_submit", None, 302, None)
         /\ UNCHANGED << storage, threads, next_id >>
         /\ AppOnly
    ELSE CreateCourse("create_course_submit", topic, "beginner",
                      "General audience", Str4Weeks, 200)

\* GET /api/courses/<task_id>/download/
download_course_api(task_id) ==
    /\ response' =
          IF task_id \notin DOMAIN storage
          THEN Answer("download_course_api", task_id, 404, None)
          ELSE IF DictGet(storage[task_id], "status", None) # "completed"
          THEN Answer("download_course_api", task_id, 400, None)
          ELSE Answer("download_course_api", task_id, 200, None)
    /\ UNCHANGED << storage, threads, next_id >>
    /\ AppOnly

\* POST /api/courses/<task_id>/refine/: a copy of the course is saved under
\* a new id; no thread is started.
refine_course_api(task_id, body) ==
    /\ AppOnly
    /\ IF task_id \notin DOMAIN storage
       THEN /\ response' = Answer("refine_course_api", task_id, 404, None)
            /\ UNCHANGED << storage, threads, next_id >>
       ELSE LET new_task_id == Uuid(next_id)
                refined_course ==
                    DictSet(DictSet(storage[task_id], "refined_from", task_id),
                            "refinement_instructions", body)
            IN /\ next_id < MaxTasks
               /\ save_course(refined_course, new_task_id)
               /\ response' = Answer("refine_course_api", task_id, 202, new_task_id)
               /\ next_id' = next_id + 1
               /\ UNCHANGED threads

\* POST /courses/<task_id>/refine: the form; instructions are required, the
\* copy is saved with status processing and a thread is started for it.
refine_course_submit(task_id, instructions) ==
    /\ AppOnly
    /\ IF instructions = "" \/ task_id \notin DOMAIN storage
       THEN /\ response' = Answer("refine_course_submit", task_id, 302, None)
            /\ UNCHANGED << storage, threads, next_id >>
       ELSE LET new_task_id == Uuid(next_id)
                refined_course ==
                    DictSet(DictSet(DictSet(DictSet(storage[task_id],
                        "refined_from", task_id),
                        "refinement_type", "general"),
                        "refinement_instructions", instructions),
                        "status", "processing")
                refinement_data ==
                    [task_id |-> task_id, refinement_type |-> "general",
                     instructions |-> instructions]
            IN /\ next_id < MaxTasks
               /\ save_course(refined_course, new_task_id)
               /\ threads' = DictSet(threads, new_task_id, NewThread(refinement_data))
               /\ response' = Answer("refine_course_submit", task_id, 302, new_task_id)
               /\ next_id' = next_id + 1

\* The thread of task_id moves on to the record th.
ThreadMoves(task_id, th) == threads' = DictSet(threads, task_id, th)

\* generate_course_async, lines 67-74: the course is read, set to
\* processing and saved.
ThreadStart(task_id) ==
    /\ AppOnly
    /\ threads[task_id].pc = "start"
    /\ save_course(DictSet(storage[task_id], "status", "processing"), task_id)
    /\ ThreadMoves(task_id, [threads[task_id] EXCEPT !.pc = "attempt"])
    /\ UNCHANGED << response, next_id >>

\* "if attempt < max_retries - 1": a failed attempt is followed by a sleep.
ShouldWaitAlways(attempt) == TRUE

ShouldWait(attempt) == attempt < max_retries - 1

\* The for loop goes to its next turn, or ends after the last one.
NextTurn(th) ==
    [th EXCEPT !.attempt = th.attempt + 1,
               !.pc = IF th.attempt + 1 < max_retries THEN "attempt" ELSE "after"]

\* One turn of the retry loop: requests.post and what follows it up to the
\* sleep or the end of the turn.
ApiAttempt(task_id, outcome) ==
    LET th == [threads[task_id] EXCEPT !.calls = @ + 1,
                                       !.got201 = @ \/ outcome = "201"] IN
    /\ AppOnly
    /\ threads[task_id].pc = "attempt"
    /\ ThreadMoves(task_id,
          IF outcome = "201"
          THEN [th EXCEPT !.api_available = TRUE, !.pc = "after"]
          ELSE IF ShouldWait(th.attempt)
          THEN [th EXCEPT !.pc = "sleep", !.sleeps = @ + 1]
          ELSE NextTurn(th))
    /\ UNCHANGED << storage, response, next_id >>

\* time.sleep(retry_delay) returns.
RetrySleep(task_id) ==
    /\ AppOnly
    /\ threads[task_id].pc = "sleep"
    /\ ThreadMoves(task_id, NextTurn(threads[task_id]))
    /\ UNCHANGED << storage, response, next_id >>

\* After the loop: nothing more when an attempt answered 201; otherwise the
\* local generation begins and the course is saved as processing, local.
AfterLoop(task_id) ==
    /\ AppOnly
    /\ threads[task_id].pc = "after"
    /\ IF threads[task_id].api_available
       THEN /\ ThreadMoves(task_id, [threads[task_id] EXCEPT !.pc = "done"])
            /\ UNCHANGED storage
       ELSE /\ ThreadMoves(task_id, [threads[task_id] EXCEPT !.pc = "local",
                                                           !.local = TRUE])
            /\ save_course(DictSet(DictSet(storage[task_id],
                               "status", "processing"),
                               "generation_method", "local"), task_id)
    /\ UNCHANGED << response, next_id >>

\* One turn of "for i in range(5)": a sleep, and progress 60 at i == 2.
LocalStep(task_id) ==
    /\ AppOnly
    /\ threads[task_id].pc = "local"
    /\ threads[task_id].i < LocalSteps
    /\ IF threads[task_id].i = ProgressStep
       THEN save_course(DictSet(storage[task_id], "progress", 60), task_id)
       ELSE UNCHANGED storage
    /\ ThreadMoves(task_id, [threads[task_id] EXCEPT !.i = @ + 1])
    /\ UNCHANGED << response, next_id >>

\* The course the local generation makes of course_data.
generated_course(task_id, course_data, created_at) ==
    LET made ==
          [task_id |-> task_id,
           topic |-> DictGet(course_data, "topic", None),
           depth |-> DictGet(course_data, "depth", "beginner"),
           target_audience |->
               DictGet(course_data, "target_audience", "General audience"),
           course_duration |-> DictGet(course_data, "course_duration", Str4Weeks),
           status |-> "completed",
           created_at |-> created_at,
           completed_at |-> "now",
           content |-> [duration |->
                            DictGet(course_data, "course_duration", Str4Weeks),
                        modules |-> 2]]
    IN IF "refinement_instructions" \in DOMAIN course_data
       THEN DictSet(DictSet(DictSet(made,
                "refinement_type",
                    DictGet(course_data, "refinement_type", "general")),
                "refinement_instructions", course_data.refinement_instructions),
                "refined_from", DictGet(course_data, "refined_from", task_id))
       ELSE made

\* The end of the local generation: the generated course is saved as
\* completed.
LocalDone(task_id) ==
    /\ AppOnly
    /\ threads[task_id].pc = "local"
    /\ threads[task_id].i = LocalSteps
    /\ save_course(generated_course(task_id, threads[task_id].course_data,
                       DictGet(storage[task_id], "created_at", None)), task_id)
    /\ ThreadMoves(task_id, [threads[task_id] EXCEPT !.pc = "done"])
    /\ UNCHANGED << response, next_id >>

\* A step of a thread of generate_course_async.
ThreadStep ==
    \/ \E task_id \in DOMAIN threads : ThreadStart(task_id)
    \/ \E task_id \in DOMAIN threads, outcome \in PostOutcomes :
           ApiAttempt(task_id, outcome)
    \/ \E task_id \in DOMAIN threads : RetrySleep(task_id)
    \/ \E task_id \in DOMAIN threads : AfterLoop(task_id)
    \/ \E task_id \in DOMAIN threads : LocalStep(task_id)
    \/ \E task_id \in DOMAIN threads : LocalDone(task_id)

\* A request to app.py.
AppRequest ==
    \/ \E body \in AppRequests : create_course_api(body)
    \/ \E topic \in FormTopics : create_course_submit(topic)
    \/ \E task_id \in StoredIds : download_course_api(task_id)
    \/ \E task_id \in StoredIds, body \in RefinementRequests :
           refine_course_api(task_id, body)
    \/ \E task_id \in StoredIds, instructions \in FormInstructions :
           refine_course_submit(task_id, instructions)

\* app.py after create_app: nothing stored, no thread, nothing answered.
InitApp ==
    /\ InitService({"none"})
    /\ gather = [pc |-> "idle"]
    /\ CleanIdle
    /\ storage = << >>
    /\ threads = << >>
    /\ response = [op |-> "none", task_id |-> None, code |-> 0,
                   new_id |-> None, seen |-> "absent"]

NextApp ==
    \/ AppRequest
    \/ ThreadStep

SpecApp == InitApp /\ [][NextApp]_vars

\* A started thread is scheduled: a step of it that stays possible is
\* taken.  requests.post has a timeout and the sleeps are finite.
ThreadProgress == WF_vars(ThreadStep)

FairSpecApp == SpecApp /\ ThreadProgress

(***************************************************************************)
(* Claims about the workflow executor (SpecCoord).                         *)
(***************************************************************************)
\* The last invocation of the step named n in the run.
LastInvocation(n) ==
    CHOOSE i \in 1..Len(invoked) :
        /\ invoked[i].name = n
        /\ \A j \in (i + 1)..Len(invoked) : invoked[j].name # n

\* C1: when process fails with the ValueError of an unregistered name, no
\* step of the workflow has been invoked, wherever the name stands in the list.
C1_NoStepRunsBeforeValueError ==
    (cpc = "raised" /\ error = "ValueError") => invoked = << >>

\* C2: the first step is given the original input, every later step the
\* output of the step before it, the steps are those of the workflow in
\* order, and "course" is the output of the last step (the original input
\* when the workflow is empty).
C2_StepsAreThreaded ==
    /\ \A i \in 1..Len(invoked) :
          /\ invoked[i].name = workflow[i]
          /\ invoked[i].input = IF i = 1 THEN inputs ELSE returned[i - 1]
    /\ cpc = "returned" =>
          /\ Len(invoked) = Len(workflow)
          /\ Len(returned) = Len(workflow)
          /\ output.course = IF Len(workflow) = 0 THEN inputs
                             ELSE returned[Len(returned)]

\* C2 witness: a run of two steps has returned, each step having changed
\* the field set it was given.
C2_Witness ==
    /\ cpc = "returned"
    /\ Len(workflow) >= 2
    /\ returned[1] # inputs
    /\ returned[2] # returned[1]
    /\ output.course = returned[Len(returned)]

\* C3 as stated: after process returns, the trace holds the original input
\* under "initial_input" and the output of every invocation of the run under
\* the name of its step.
C3_TraceHoldsEveryInvocation ==
    cpc = "returned" =>
        /\ output.process_results["initial_input"] = inputs
        /\ \A i \in 1..Len(invoked) :
              output.process_results[invoked[i].name] = returned[i]

\* C3 amended: after process returns, the trace has exactly the keys
\* "initial_input" and the names of the workflow; under each step name it
\* holds the output of the last invocation of that step, and under
\* "initial_input" the original input unless a step has that name.
C3_TraceHoldsLastInvocation ==
    cpc = "returned" =>
        /\ DOMAIN output.process_results = {"initial_input"} \cup Range(workflow)
        /\ \A n \in Range(workflow) :
              output.process_results[n] = returned[LastInvocation(n)]
        /\ "initial_input" \notin Range(workflow) =>
              output.process_results["initial_input"] = inputs

\* C3 witness: a run that names the same step twice has returned, the two
\* invocations having returned different outputs.
C3_Witness ==
    /\ cpc = "returned"
    /\ \E i, j \in 1..Len(invoked) :
          /\ i < j
          /\ invoked[i].name = invoked[j].name
          /\ returned[i] # returned[j]
          /\ output.process_results[invoked[j].name] = returned[j]

(***************************************************************************)
(* Claims about the generation steps (SpecPipeline).                       *)
(***************************************************************************)
\* C4: a step whose language-model call raises does not raise itself, and
\* the executor goes on: neither a step nor process ever ends with the
\* exception of a model call.
C4_ModelFailureIsAbsorbed ==
    /\ ~(apc = "raised" /\ aerr = "LLMError")
    /\ ~(cpc = "raised" /\ error = "LLMError")

\* C5: when gather_research raised and the model call of the Research step
\* was answered, the step returns a field set with "research" and
\* "research_sources"; it does not raise.
C5_GatewayFailureIsAbsorbed ==
    (/\ active = "researcher"
     /\ apc \in {"returned", "raised"}
     /\ loc.gather_raised
     /\ ~(apc = "raised" /\ aerr = "LLMError")) =>
        /\ apc = "returned"
        /\ {"research", "research_sources"} \subseteq DOMAIN aret

\* The calls the Content step has issued in the run.
ContentCalls ==
    SelectSeq(events, LAMBDA e : e.ev = "issue" /\ e.who.agent = "content_generator")

\* C6: for a structure string that clean_json_string cannot parse (absent and
\* empty ones included) the Content step issues no model call and returns,
\* without raising, an output with an "error" key whose content_structure
\* has no modules and the title "Error in structure parsing".
C6_UnparseableStructureYieldsErrorCourse ==
    (/\ active = "content_generator"
     /\ ~clean_json_string(DictGet(arg, "structure", << >>)).ok) =>
        /\ apc \in {"content_start", "returned"}
        /\ ContentCalls = << >>
        /\ apc = "returned" =>
              /\ "error" \in DOMAIN aret
              /\ aret.content_structure.modules = << >>
              /\ aret.content_structure.course_title.v # ""
              /\ aret.content_structure.course_title = JStr("Error in structure parsing")

\* C6 witness: the Content step has returned for a structure text cut short.
C6_Witness ==
    /\ active = "content_generator"
    /\ apc = "returned"
    /\ "structure" \in DOMAIN arg
    /\ arg.structure = TextTruncated
    /\ ~clean_json_string(arg.structure).ok
    /\ aret.content_structure.modules = << >>

\* The keys each step writes.
Writes(name) ==
    CASE name = "researcher" -> {"research", "research_sources"}
      [] name = "structurer" -> {"structure"}
      [] name = "content_generator" -> {"content_structure", "error"}
      [] name = "validator" -> {"content_structure"}
      [] OTHER -> {}

\* C7: the output of every step invocation has every key of its input, and
\* the keys the step does not write keep their values.
C7_FieldSetOnlyWidens ==
    \A i \in 1..Len(returned) :
        /\ DOMAIN invoked[i].input \subseteq DOMAIN returned[i]
        /\ \A k \in DOMAIN invoked[i].input \ Writes(invoked[i].name) :
              returned[i][k] = invoked[i].input[k]

\* C7 witness: the four steps have run on a request that came with an "error"
\* entry of its own, and the course has the keys of all of them.
C7_Witness ==
    /\ cpc = "returned"
    /\ workflow = StandardWorkflow
    /\ Len(returned) = 4
    /\ "error" \in DOMAIN inputs
    /\ output.course.error = "stale"
    /\ {"research", "research_sources", "structure", "content_structure"}
           \subseteq DOMAIN output.course
    /\ Len(output.course.content_structure.modules) = 2

\* C8: the Validate step returns its input with content_structure set to
\* the content structure it received ({} when it received none); the feedback
\* of its review calls is in no key of the output.
C8_ValidateReturnsWhatItReceived ==
    (active = "validator" /\ apc = "returned") =>
        /\ DOMAIN aret = DOMAIN arg \cup {"content_structure"}
        /\ aret.content_structure = DictGet(arg, "content_structure", << >>)
        /\ \A k \in DOMAIN arg \ {"content_structure"} : aret[k] = arg[k]

\* C8 witness: the Validate step has returned after four reviews of a course
\* of two modules, each review having given feedback.
C8_Witness ==
    /\ active = "validator"
    /\ apc = "returned"
    /\ "content_structure" \in DOMAIN arg
    /\ Len(arg.content_structure.modules) = 2
    /\ Len(loc.improvements) = 4
    /\ \A i \in 1..4 : loc.improvements[i].feedback \in FeedbackTexts

\* The positions in events of the lesson calls of the Content step.
LessonIssues ==
    {i \in 1..Len(events) : events[i].ev = "issue" /\ events[i].who.call = "lesson"}

\* C9: at most one call is in flight; a step begins only at the start of the
\* run or after the end of the step before it; a call is issued only after
\* the begin of its step or the answer of the call before it; the lesson
\* calls are issued in module order, then lesson order.
C9_StrictlySequential ==
    /\ Cardinality(inflight) <= 1
    /\ \A i \in 1..Len(events) :
          /\ events[i].ev = "begin" => (i = 1 \/ events[i - 1].ev = "end")
          /\ events[i].ev = "issue" =>
                (i > 1 /\ events[i - 1].ev \in {"begin", "answer"})
          /\ events[i].ev = "answer" =>
                (i > 1 /\ events[i - 1].ev = "issue" /\ events[i - 1].who = events[i].who)
          /\ events[i].ev = "end" =>
                (i > 1 /\ events[i - 1].ev \in {"begin", "answer"})
    /\ \A i, j \in LessonIssues :
          i < j => \/ events[i].who.m < events[j].who.m
                   \/ /\ events[i].who.m = events[j].who.m
                      /\ events[i].who.l < events[j].who.l

\* C9 witness: the four steps have run and the Content step has issued the
\* calls of the two lessons of the first module and of the lesson of the
\* second.
C9_Witness ==
    /\ cpc = "returned"
    /\ workflow = StandardWorkflow
    /\ Len(SelectSeq(events, LAMBDA e : e.ev = "begin")) = 4
    /\ {<< events[i].who.m, events[i].who.l >> : i \in LessonIssues}
           = {<< 1, 1 >>, << 1, 2 >>, << 2, 1 >>}

(***************************************************************************)
(* Claims about the course document (SpecCourse).                          *)
(***************************************************************************)
\* C10: after adjust_modules_to_duration on a course whose course_duration
\* is "<N> weeks" and that had k modules, the course has exactly N modules:
\* the first N of the k in order when k > N; the k followed by placeholders
\* titled "Module k+1" .. "Module N", described "Content to be developed",
\* when k < N.
C10_AdjustLeavesNModules ==
    \A N \in 0..MaxWeeks :
        (cop = "adjust_modules_to_duration" /\ course.course_duration = Weeks(N)) =>
            LET k == Len(before)
            IN  /\ Len(course.modules) = N
                /\ k >= N => course.modules = SubSeq(before, 1, N)
                /\ k < N =>
                      /\ SubSeq(course.modules, 1, k) = before
                      /\ \A i \in (k + 1)..N :
                            /\ course.modules[i].title =
                                   << "M", "o", "d", "u", "l", "e", " " >> \o NatChars(i)
                            /\ course.modules[i].description = "Content to be developed"

\* C10 witness: a course of two modules and "10 weeks" has been padded to ten
\* modules, the last one titled "Module 10".
C10_Witness ==
    /\ cop = "adjust_modules_to_duration"
    /\ course.course_duration = Weeks(10)
    /\ Len(before) = 2
    /\ Len(course.modules) = 10
    /\ course.modules[10].title = << "M", "o", "d", "u", "l", "e", " ", "1", "0" >>
    /\ course.modules[2] = before[2]

(***************************************************************************)
(* Claims about the Course model (SpecCourse), continued.                  *)
(***************************************************************************)
\* C20: a Course rebuilt by from_dict from its own to_dict has the same
\* title, description, topic, depth, course_duration, references,
\* validation_results, created_at and updated_at instants and the same
\* ordered modules and lessons as the original, whatever the instant of the
\* rebuilding, and its to_dict equals the original's.
C20_RoundTripPreservesCourse ==
    roundtrip.stage = "rebuilt" =>
        /\ roundtrip.rebuilt = course
        /\ CourseToDict(roundtrip.rebuilt) = roundtrip.data

\* A course with a module of two lessons, a reference and microseconds in its
\* instants was rebuilt at another instant.
C20_Witness ==
    /\ roundtrip.stage = "rebuilt"
    /\ \E i \in DOMAIN course.modules : Len(course.modules[i].lessons) > 1
    /\ course.references # << >>
    /\ course.created_at.us # 0
    /\ \E now \in Instants \ {course.created_at} :
          roundtrip.rebuilt = CourseFromDict(roundtrip.data, now)

(***************************************************************************)
(* Claims about the task layer (SpecMain, SpecRoutes).                     *)
(***************************************************************************)
\* The generation tasks and the refinement tasks among the records.
GenerationTasks ==
    {t \in DOMAIN course_tasks : "original_task_id" \notin DOMAIN course_tasks[t]}

RefinementTasks ==
    {t \in DOMAIN course_tasks : "original_task_id" \in DOMAIN course_tasks[t]}

\* C11: whenever a generation task has status completed, the document
\* persisted for it has as many modules as the week count of the document's
\* course_duration (get_duration_in_weeks of the document).  That the
\* document exists is the matter of C26.
C11_CompletedDocumentHasWeeksModules ==
    \A t \in GenerationTasks :
        (course_tasks[t].status = "completed" /\ t \in DOMAIN files) =>
            Len(files[t].modules) = get_duration_in_weeks(files[t])

\* The generation task of the n-th identifier stands with the given status.
GenerationStatusIn(n, statuses) ==
    /\ Uuid(n) \in GenerationTasks
    /\ course_tasks[Uuid(n)].status \in statuses

\* C12: every generation task accepted with status queued eventually has
\* status completed or failed.
C12_AcceptedTaskEnds ==
    \A n \in 0..(MaxTasks - 1) :
        GenerationStatusIn(n, {"queued"})
            ~> GenerationStatusIn(n, {"completed", "failed"})

\* C13: for every task id, at most one background task is ever handed to an
\* event loop to process it.
C13_OneBackgroundTaskPerId ==
    \A i, j \in DOMAIN coros :
        coros[i].task_id = coros[j].task_id => i = j

\* C14: in every reachable state the status of every task record, of a
\* generation or of a refinement, is one of queued, processing, completed,
\* failed.
C14_StatusIsOneOfFour ==
    \A t \in DOMAIN course_tasks :
        course_tasks[t].status \in {"queued", "processing", "completed", "failed"}

\* A generation task was set to processing and the refinement of a completed
\* one stands queued.
C14_Witness ==
    /\ \E t \in GenerationTasks : course_tasks[t].status = "processing"
    /\ \E t \in RefinementTasks : course_tasks[t].status = "queued"

\* C15: a request that lacks its required field creates no task record:
\* every generation record has the topic of its request and every refinement
\* record the instructions of its request.  The empty instructions are the
\* default stored for a request that carried none.
C15_NoRecordWithoutRequiredField ==
    /\ \A t \in GenerationTasks : "topic" \in DOMAIN course_tasks[t]
    /\ \A t \in RefinementTasks : course_tasks[t].instructions # ""

\* C16: a generation request that omits course_duration is generated as a
\* "4 weeks" course: the task record says "4 weeks", the Structure step runs
\* with the week count of "4 weeks", and the document persisted has
\* course_duration "4 weeks".
C16_OmittedDurationIsFourWeeks ==
    (/\ app = "courses_restx"
     /\ run.pc # "none"
     /\ "course_duration" \notin DOMAIN run.input_data)
    => /\ course_tasks[run.task_id].course_duration = Str4Weeks
       /\ (run.on /\ apc = "structure_llm") => loc.num_weeks = NumWeeks(Str4Weeks)
       /\ (run.pc = "done" /\ run.task_id \in DOMAIN files)
            => files[run.task_id].course_duration = Str4Weeks

\* api/main.py, process_course_refinement, lines 464-484: the document a
\* refinement derives from the original document.
RefinedDocument(original_course, refinement_data, applied_at) ==
    LET validation_results == DictGet(original_course, "validation_results", << >>)
        refinements == DictGet(validation_results, "refinements", << >>)
    IN  DictSet(original_course, "validation_results",
                DictSet(validation_results, "refinements",
                        Append(refinements,
                               [type |-> DictGet(refinement_data, "refinement_type", "general"),
                                instructions |-> DictGet(refinement_data, "instructions", ""),
                                applied_at |-> applied_at])))

\* C17: the persisted document of a completed refinement is the original
\* task's document with exactly one entry {type, instructions, applied_at}
\* appended to validation_results.refinements and every other field as in
\* the original.  That the documents exist is the matter of C26.
C17_CompletedRefinementAppendsOneEntry ==
    \A t \in RefinementTasks :
        (/\ course_tasks[t].status = "completed"
         /\ t \in DOMAIN files
         /\ course_tasks[t].original_task_id \in DOMAIN files) =>
            \E now \in Instants :
                files[t] = RefinedDocument(files[course_tasks[t].original_task_id],
                                           course_tasks[t], IsoFormat(now))

(***************************************************************************)
(* Claims about the research service (SpecResearch).                       *)
(***************************************************************************)
\* The placeholder a failed provider answers with: one element, whose
\* "content" is the text of the failure.
IsPlaceholder(sources, failure) ==
    /\ Len(sources) = 1
    /\ sources[1].content = failure.text

\* C18: gather_research never raises; it invokes each provider exactly once
\* (at most once while it runs) and no provider sends a second request; and
\* where a provider failed, by an exception, an answer other than 200 or the
\* missing API key, its result is a single-element list whose "content" is
\* the error text.
C18_GatherNeverRaises ==
    /\ gather.outcome # "raised"
    /\ \A p \in {"tavily", "arxiv"} :
          /\ gather.calls[p] <= 1
          /\ gather.requests[p] <= gather.calls[p]
    /\ gather.outcome = "returned" =>
          /\ gather.calls = [tavily |-> 1, arxiv |-> 1]
          /\ gather.web_failure.failed =>
                IsPlaceholder(gather.result.web_sources, gather.web_failure)
          /\ gather.academic_failure.failed =>
                IsPlaceholder(gather.result.academic_sources, gather.academic_failure)

\* gather_research returned after the web provider failed on a 200 answer
\* that was no usable JSON and the academic provider answered with an error
\* status.
C18_Witness ==
    /\ gather.outcome = "returned"
    /\ gather.key
    /\ gather.web_failure.kind = "exception"
    /\ gather.web_failure.text \notin {"Failed to search Tavily: " \o e : e \in RequestErrors}
    /\ gather.academic_failure.kind = "status"

(***************************************************************************)
(* Claims about a generation run by the blueprints (SpecRoutes).           *)
(***************************************************************************)
\* The structure texts that clean_json_string cannot parse.
UnparseableTexts == {text \in StructureTexts : ~clean_json_string(text).ok}

\* The Structure step of the running or last generation returned a text that
\* clean_json_string cannot parse.
StructureUnparseable ==
    /\ run.pc \in {"processing", "done"}
    /\ "structurer" \in DOMAIN results
    /\ results["structurer"].structure \in UnparseableTexts

\* A model call of the Validate step raised in the running or last generation.
ValidateRaised == active = "validator" /\ apc = "raised"

C26_CompletedTaskHasDocument ==
    \A n \in DOMAIN course_tasks :
        course_tasks[n].status = "completed" => n \in DOMAIN files

\* C27: once the status of a task record is completed or failed, no step
\* changes it.
C27_TerminalStatusIsAbsorbing ==
    [][\A n \in DOMAIN course_tasks :
          course_tasks[n].status \in {"completed", "failed"} =>
             course_tasks'[n].status = course_tasks[n].status]_vars

(***************************************************************************)
(* Claims about repeating the resize (SpecCourse).                         *)
(***************************************************************************)
\* C30: after adjust_modules_to_duration, whatever the course and its
\* course_duration, applying it once more leaves the modules as they are; and
\* when the first token of the duration is no integer, or is missing, the
\* application left the modules as they were.
C30_AdjustIsIdempotent ==
    cop = "adjust_modules_to_duration" =>
        /\ Adjusted(course).modules = course.modules
        /\ ~LeadingInt(course.course_duration).ok => course.modules = before

(***************************************************************************)
(* Claims about the calls of the Content step (SpecPipeline).              *)
(***************************************************************************)
\* What clean_json_string makes of the structure texts of the model.
ParsedTexts == [text \in StructureTexts \cup {<< >>} |-> clean_json_string(text)]

\* clean_json_string(text).
Parse(text) ==
    IF text \in DOMAIN ParsedTexts THEN ParsedTexts[text] ELSE clean_json_string(text)

\* The modules of a parsed structure and the lessons of a module, as the
\* loops of the Content step read them.
ModulesOf(structure) == Items(DictGet(structure.v, "modules", JList(<< >>)))
LessonsOf(module) == Items(DictGet(module.v, "lessons", JList(<< >>)))

\* The text parses into an object whose modules are objects whose lessons are
\* lists of objects.
WellFormed(text) ==
    LET structure == Parse(text)
    IN  /\ structure.ok
        /\ structure.val.t = "dict"
        /\ ModulesOf(structure.val).ok
        /\ \A m \in DOMAIN ModulesOf(structure.val).items :
              LET module == ModulesOf(structure.val).items[m]
              IN  /\ module.t = "dict"
                  /\ LessonsOf(module).ok
                  /\ \A l \in DOMAIN LessonsOf(module).items :
                        LessonsOf(module).items[l].t = "dict"

\* The modules of a well-formed text, and its lessons as pairs << m, l >>.
StructureModules(text) == ModulesOf(Parse(text).val).items
StructureLessons(text) ==
    UNION {{<< m, l >> : l \in DOMAIN LessonsOf(StructureModules(text)[m]).items} :
              m \in DOMAIN StructureModules(text)}

\* The lessons the Content step has issued a call for, as pairs << m, l >>.
LessonsCalled ==
    {<< ContentCalls[i].who.m, ContentCalls[i].who.l >> :
        i \in {k \in DOMAIN ContentCalls : ContentCalls[k].who.call = "lesson"}}

\* The content_structure has the modules, lessons and titles of the text.
SameShape(content_structure, text) ==
    LET given == StructureModules(text)
        made == content_structure.modules
    IN  /\ Len(made) = Len(given)
        /\ \A m \in DOMAIN given :
              /\ made[m].title = DictGet(given[m].v, "title", JStr(""))
              /\ Len(made[m].lessons) = Len(LessonsOf(given[m]).items)
              /\ \A l \in DOMAIN LessonsOf(given[m]).items :
                    made[m].lessons[l].title =
                        DictGet(LessonsOf(given[m]).items[l].v, "title", JStr(""))

\* The Content step has returned the course of one of its except arms.
ErrorCourseReturned ==
    /\ apc = "returned"
    /\ aret.content_structure.course_title \in
           {JStr("Error in structure parsing"), JStr("Error in content generation")}

\* C23 as stated: for every structure that parses into modules and lessons,
\* the Content step returns having issued one call per lesson and one for the
\* references, and a content_structure of the same modules, lessons and titles.
C23_EveryStructureIsCovered ==
    (/\ active = "content_generator"
     /\ apc = "returned"
     /\ WellFormed(DictGet(arg, "structure", << >>))) =>
        /\ Len(ContentCalls) = Cardinality(StructureLessons(arg.structure)) + 1
        /\ SameShape(aret.content_structure, arg.structure)

\* C23 amended: the Content step issues calls for lessons of the structure
\* only, each at most once, and never a call for a lesson while a lesson
\* before it has none; when it returns a course other than the error course
\* of its except arms, it has issued exactly one call per lesson and then the
\* one for the references, and its content_structure has the modules, lessons
\* and titles of the structure, in order; when it returns the error course,
\* after a call that raised, that course has no modules.
C23_ContentCoversEveryLesson ==
    (/\ active = "content_generator"
     /\ WellFormed(DictGet(arg, "structure", << >>))) =>
        LET lessons == StructureLessons(arg.structure)
        IN  /\ LessonsCalled \subseteq lessons
            /\ \A i, j \in DOMAIN ContentCalls :
                  i # j => ContentCalls[i].who # ContentCalls[j].who
            /\ \A called \in LessonsCalled : \A ml \in lessons :
                  (\/ ml[1] < called[1]
                   \/ ml[1] = called[1] /\ ml[2] < called[2]) => ml \in LessonsCalled
            /\ (apc = "returned" /\ ~ErrorCourseReturned) =>
                  /\ LessonsCalled = lessons
                  /\ Len(ContentCalls) = Cardinality(lessons) + 1
                  /\ ContentCalls[Len(ContentCalls)].who.call = "references"
                  /\ SameShape(aret.content_structure, arg.structure)
            /\ ErrorCourseReturned =>
                  /\ Len(ContentCalls) <= Cardinality(lessons) + 1
                  /\ "error" \in DOMAIN aret
                  /\ aret.content_structure.modules = << >>

\* C23 witness: for the structure of two modules with two lessons and one, the
\* Content step has returned after four calls, with both modules.
C23_Witness ==
    /\ active = "content_generator"
    /\ apc = "returned"
    /\ "structure" \in DOMAIN arg
    /\ arg.structure = TextDirect
    /\ ~ErrorCourseReturned
    /\ Len(ContentCalls) = 4
    /\ Len(aret.content_structure.modules) = 2
    /\ Len(aret.content_structure.modules[1].lessons) = 2

(***************************************************************************)
(* Claims about failed generation tasks (SpecRoutes).                      *)
(***************************************************************************)
\* C24: when an exception has left coordinator.process in a generation task,
\* the next step of the task sets its status to failed and records the
\* error, and writes no document for the task id; a failed task is never
\* marked completed, or anything else, afterwards, and no document is written
\* for it.
C24_EscapedExceptionFailsTask ==
    /\ [][(run.on /\ cpc = "raised") =>
             /\ course_tasks'[run.task_id].status = "failed"
             /\ "error" \in DOMAIN course_tasks'[run.task_id]
             /\ course_tasks'[run.task_id].error = error
             /\ run.task_id \notin DOMAIN files']_vars
    /\ [][\A n \in GenerationTasks :
             course_tasks[n].status = "failed" =>
                /\ course_tasks'[n].status = "failed"
                /\ n \notin DOMAIN files']_vars

\* C24 witness: the model call of a step raised, the exception left the
\* pipeline, and the task is failed with the error recorded and no document.
C24_Witness ==
    /\ ~run.on
    /\ run.pc = "done"
    /\ error # None
    /\ course_tasks[run.task_id].status = "failed"
    /\ course_tasks[run.task_id].error = error
    /\ run.task_id \notin DOMAIN files

(***************************************************************************)
(* Claims about clean_json_string (SpecClean).                             *)
(***************************************************************************)
\* C21: whatever the input string, an exception that leaves clean_json_string
\* is json.JSONDecodeError, never an exception of another type.
C21_OnlyJSONDecodeErrorLeaves ==
    clean.pc = "raised" => clean.exc = "JSONDecodeError"

\* What json.loads makes of the text of stage k: the stripped text, that text
\* with the single quotes outside double-quoted spans replaced, the span from
\* the first "{" to the last "}" of the stripped text.
StageParse(text, k) ==
    LET stripped == StripFences(text)
    IN  CASE k = 1 -> JsonLoads(stripped)
          [] k = 2 -> JsonLoads(FixQuotes(stripped))
          [] k = 3 -> IF BraceSpan(stripped).found
                      THEN JsonLoads(BraceSpan(stripped).text)
                      ELSE Raised("JSONDecodeError")

\* The stages of the text that yield valid JSON.
ValidStages(text) == {k \in 1..3 : StageParse(text, k).ok}

EndedCourses ==
    { id \in DOMAIN storage :
        DictGet(storage[id], "status", None) \in {"completed", "failed"} }

\* C25: every course that app.py saved with status processing and handed to
\* a thread of generate_course_async eventually has a stored status of
\* completed or failed, whether an attempt answered 201 or all attempts failed.
C25_EveryCourseEnds ==
    \A n \in 0..(MaxTasks - 1) :
        (Uuid(n) \in DOMAIN threads) ~> (Uuid(n) \in EndedCourses)

\* C28: download_course_api and refine_course_api act only on a stored
\* course whose status is completed: a task id that is not stored is answered
\* 404, a course with another status 400, and neither creates a record.
C28_ActOnlyOnCompleted ==
    response.op \in {"download_course_api", "refine_course_api"} =>
        /\ response.seen = "absent" =>
              response.code = 404 /\ response.new_id = None
        /\ response.seen \notin {"absent", "completed"} =>
              response.code = 400 /\ response.new_id = None

\* C29: a thread of generate_course_async calls the API at most max_retries
\* times and never again after an answer of 201; every further attempt comes
\* after a wait and no wait follows the last attempt; the local generation
\* runs if and only if no attempt answered 201.
C29_RetryThenFallback ==
    \A id \in DOMAIN threads :
        LET th == threads[id] IN
        /\ th.calls <= max_retries
        /\ th.got201 => th.pc \in {"after", "done"}
        /\ th.pc = "attempt" => th.sleeps = th.calls
        /\ th.pc = "sleep" => th.calls < max_retries
        /\ th.pc \in {"after", "local", "done"} => th.sleeps = th.calls - 1
        /\ th.local => ~th.got201
        /\ th.pc = "done" => (th.local <=> ~th.got201)

\* C29: a thread has ended after three failed attempts and the local
\* generation, and another after an answer of 201 to its second attempt.
C29_Witness ==
    /\ \E id \in DOMAIN threads :
          /\ threads[id].pc = "done"
          /\ threads[id].calls = max_retries
          /\ threads[id].sleeps = max_retries - 1
          /\ threads[id].local
          /\ id \in EndedCourses
    /\ \E id \in DOMAIN threads :
          /\ threads[id].pc = "done"
          /\ threads[id].got201
          /\ threads[id].calls = 2
          /\ ~threads[id].local

====
